---- MODULE Spec2Model ----
(***************************************************************************)
(* Authentication, session, CSRF and login rate limiting of the panel      *)
(* (lib/auth.ts).  Strings the code inspects character by character        *)
(* (cookies, signed values, tokens) are tuples of one-character strings.   *)
(* Time is the value of Date.now() in milliseconds.                        *)
(***************************************************************************)
EXTENDS Integers, Sequences, FiniteSets, TLC

\* ------------------------------------------------------------------------
\* State
\* ------------------------------------------------------------------------
VARIABLES
  now,                  \* Date.now()
  ticks,                \* clock advances so far
  PANEL_PASSWORD_HASH,  \* process.env.PANEL_PASSWORD_HASH || ""
  ALLOWED_IPS,          \* the parsed PANEL_ALLOWED_IPS
  activeSession,        \* the single session slot
  rateLimitMap,         \* address -> RateEntry
  comparing,            \* login calls waiting at `await bcrypt.compare`
  issued,               \* sessions created so far
  csrfWait,             \* the validateCSRF call waiting at `await headers()`
  failedLogins,         \* observer: failed login calls per address and window
  neverSwept,           \* observer: rateLimitMap had the timer never run
  firstSigned,          \* observer: the first signValue call and its output
  requests,             \* the route handlers in flight, each at an await
  ret                   \* what the last step returned to its caller

\* ------------------------------------------------------------------------
\* Config
\* ------------------------------------------------------------------------
SESSION_MAX_AGE_MS == 24 * 60 * 60 * 1000
LOGIN_MAX_ATTEMPTS == 5
LOGIN_WINDOW_MS == 15 * 60 * 1000
LOCKOUT_ATTEMPTS == 10
LOCKOUT_DURATION_MS == 30 * 60 * 1000

\* ------------------------------------------------------------------------
\* Bounds of the model
\* ------------------------------------------------------------------------
\* clock advances in one behaviour, around the session lifetime
MaxTicks == 3
\* clock advances in one behaviour, around the attempt window and lockout
MaxRateTicks == 2
\* login calls that reach bcrypt.compare, while the session is explored
MaxLogins == 2
\* login calls that may wait for bcrypt.compare at the same time
MaxInflight == 7
\* failed attempts counted or on their way, over all addresses
MaxFailures == 11
\* sessions issued, while the rate limiter is explored
MaxRateSessions == 1
\* failed login calls of one address that are counted
MaxFailedLogins == 10

\* Date.now() when the process starts
StartTime == 1000
\* steps by which the clock advances around the session lifetime
SessionTickSteps == {1, SESSION_MAX_AGE_MS - 1}
\* clock advances and logins while the mutating routes are served
MaxGuardTicks == 1
MaxGuardLogins == 1
GuardTickSteps == {SESSION_MAX_AGE_MS + 1}
\* length of the strings handed to verifySignedValue
MaxSignedLen == 4
\* clock advances between the calls of signValue
MaxSignTicks == 1
\* steps by which the clock advances around the attempt window and lockout
RateTickSteps == {1, LOGIN_WINDOW_MS}

\* ------------------------------------------------------------------------
\* Values
\* ------------------------------------------------------------------------
\* JavaScript null and undefined; neither is a string of characters
Null == <<"<null>">>
Undefined == <<"<undefined>">>
\* activeSession = null
NullSession == [null |-> TRUE]

Digits == <<"1", "2", "3", "4", "5", "6", "7", "8", "9">>
\* the n-th value of randomUUID()
SessionId(n) == <<"s", Digits[n]>>
\* the n-th value of randomBytes(32).toString("hex")
CsrfToken(n) == <<"c", Digits[n]>>

IP_5 == <<"1", "0", ".", "0", ".", "0", ".", "5">>
IP_6 == <<"1", "0", ".", "0", ".", "0", ".", "6">>
\* source addresses of the requests
ReqIPs == {IP_5, IP_6}
\* values of PANEL_ALLOWED_IPS after split, trim and filter
AllowlistConfigs == {<<>>, <<IP_5>>}

GoodPassword == "hunter2"
Passwords == {GoodPassword, "letmein"}
\* the hash setup.sh stores for a password
Bcrypt(password) == <<"$2b$12$", password>>
\* values of PANEL_PASSWORD_HASH: unset, or the hash of the admin password
HashConfigs == {<<>>, Bcrypt(GoodPassword)}
bcryptCompare(password, hash) == hash = Bcrypt(password)

\* ------------------------------------------------------------------------
\* Signing
\* ------------------------------------------------------------------------
\* the digits of the digest that one character of the message accounts for:
\* never ".", and no character's digits begin another's, so that different
\* messages have different digests
HexDigit(c) ==
  CASE c = "." -> <<"0">>
    [] c = "0" -> <<"1", "0">>
    [] c = "1" -> <<"1", "1">>
    [] OTHER -> <<c>>

\* createHmac("sha256", PANEL_SECRET).update(value).digest("hex"): a
\* deterministic tag, never empty, with no "." in it, different for different
\* values
Hmac(value) ==
  LET RECURSIVE digits(_)
      digits(v) == IF v = <<>> THEN <<>>
                   ELSE HexDigit(Head(v)) \o digits(Tail(v))
  IN <<"f">> \o digits(value)

\* mutant: the tag covers the time of the call beside the value
signValue_Salted(value) ==
  value \o <<".">> \o Hmac(value \o <<Digits[ticks + 1]>>)

signValue(value) == value \o <<".">> \o Hmac(value)

\* String.prototype.lastIndexOf, 0-based, -1 when absent
LastIndexOf(s, ch) ==
  LET hits == {i \in 1..Len(s) : s[i] = ch}
  IN IF hits = {} THEN -1
     ELSE (CHOOSE i \in hits : \A j \in hits : j <= i) - 1

\* mutant: the recomputed signature is not compared
verifySignedValue_NoCompare(signed) ==
  LET lastDot == LastIndexOf(signed, ".")
  IN IF lastDot = -1 THEN Null ELSE SubSeq(signed, 1, lastDot)

verifySignedValue(signed) ==
  LET lastDot == LastIndexOf(signed, ".")
  IN IF lastDot = -1 THEN Null
     ELSE LET value == SubSeq(signed, 1, lastDot)
              expected == signValue(value)
          IN IF expected # signed THEN Null ELSE value

\* the strings handed to verifySignedValue, and the values signed
SignChars == {"a", ".", "f", "0"}
Strings(n) == UNION {[1..k -> SignChars] : k \in 0..n}
SignedStrings == Strings(MaxSignedLen)
SignedValues == Strings(MaxSignedLen \div 2)

\* ------------------------------------------------------------------------
\* Rate limiting: a Map from address to {attempts, firstAttempt, lockedUntil}
\* ------------------------------------------------------------------------
MapHas(map, key) == key \in DOMAIN map
MapDelete(map, key) == [k \in (DOMAIN map) \ {key} |-> map[k]]
MapSet(map, key, val) ==
  [k \in (DOMAIN map) \cup {key} |-> IF k = key THEN val ELSE map[k]]

Max(a, b) == IF a >= b THEN a ELSE b

\* mutant: an address with no attempt left is still let in
checkRateLimit_OffByOne(map, ip, t) ==
  IF ~MapHas(map, ip)
  THEN [allowed |-> TRUE, remaining |-> LOGIN_MAX_ATTEMPTS, retryAfterMs |-> 0,
        map |-> map]
  ELSE LET entry == map[ip]
       IN IF entry.lockedUntil > t
          THEN [allowed |-> FALSE, remaining |-> 0,
                retryAfterMs |-> entry.lockedUntil - t, map |-> map]
          ELSE IF t - entry.firstAttempt > LOGIN_WINDOW_MS
          THEN [allowed |-> TRUE, remaining |-> LOGIN_MAX_ATTEMPTS,
                retryAfterMs |-> 0, map |-> MapDelete(map, ip)]
          ELSE LET remaining == LOGIN_MAX_ATTEMPTS - entry.attempts
               IN [allowed |-> remaining >= 0, remaining |-> Max(0, remaining),
                   retryAfterMs |-> 0, map |-> map]

\* mutant: a window that is over is not reset
checkRateLimit_NoReset(map, ip, t) ==
  IF ~MapHas(map, ip)
  THEN [allowed |-> TRUE, remaining |-> LOGIN_MAX_ATTEMPTS, retryAfterMs |-> 0,
        map |-> map]
  ELSE LET entry == map[ip]
       IN IF entry.lockedUntil > t
          THEN [allowed |-> FALSE, remaining |-> 0,
                retryAfterMs |-> entry.lockedUntil - t, map |-> map]
          ELSE LET remaining == LOGIN_MAX_ATTEMPTS - entry.attempts
               IN [allowed |-> remaining > 0, remaining |-> Max(0, remaining),
                   retryAfterMs |-> 0, map |-> map]

\* the value returned and the map left behind, at time t
checkRateLimit(map, ip, t) ==
  IF ~MapHas(map, ip)
  THEN [allowed |-> TRUE, remaining |-> LOGIN_MAX_ATTEMPTS, retryAfterMs |-> 0,
        map |-> map]
  ELSE LET entry == map[ip]
       IN IF entry.lockedUntil > t
          THEN [allowed |-> FALSE, remaining |-> 0,
                retryAfterMs |-> entry.lockedUntil - t, map |-> map]
          ELSE IF t - entry.firstAttempt > LOGIN_WINDOW_MS
          THEN [allowed |-> TRUE, remaining |-> LOGIN_MAX_ATTEMPTS,
                retryAfterMs |-> 0, map |-> MapDelete(map, ip)]
          ELSE LET remaining == LOGIN_MAX_ATTEMPTS - entry.attempts
               IN [allowed |-> remaining > 0, remaining |-> Max(0, remaining),
                   retryAfterMs |-> 0, map |-> map]

\* mutant: the lockout starts one failure late
recordFailedAttempt_LateLock(map, ip, t) ==
  IF ~MapHas(map, ip) \/ t - map[ip].firstAttempt > LOGIN_WINDOW_MS
  THEN MapSet(map, ip, [attempts |-> 1, firstAttempt |-> t, lockedUntil |-> 0])
  ELSE LET attempts == map[ip].attempts + 1
       IN MapSet(map, ip,
            [attempts |-> attempts,
             firstAttempt |-> map[ip].firstAttempt,
             lockedUntil |-> IF attempts > LOCKOUT_ATTEMPTS
                             THEN t + LOCKOUT_DURATION_MS
                             ELSE map[ip].lockedUntil])

\* mutant: a fresh entry starts at no attempt
recordFailedAttempt_FromZero(map, ip, t) ==
  IF ~MapHas(map, ip) \/ t - map[ip].firstAttempt > LOGIN_WINDOW_MS
  THEN MapSet(map, ip, [attempts |-> 0, firstAttempt |-> t, lockedUntil |-> 0])
  ELSE LET attempts == map[ip].attempts + 1
       IN MapSet(map, ip,
            [attempts |-> attempts,
             firstAttempt |-> map[ip].firstAttempt,
             lockedUntil |-> IF attempts >= LOCKOUT_ATTEMPTS
                             THEN t + LOCKOUT_DURATION_MS
                             ELSE map[ip].lockedUntil])

\* the map after recordFailedAttempt(ip) at time t
recordFailedAttempt(map, ip, t) ==
  IF ~MapHas(map, ip) \/ t - map[ip].firstAttempt > LOGIN_WINDOW_MS
  THEN MapSet(map, ip, [attempts |-> 1, firstAttempt |-> t, lockedUntil |-> 0])
  ELSE LET attempts == map[ip].attempts + 1
       IN MapSet(map, ip,
            [attempts |-> attempts,
             firstAttempt |-> map[ip].firstAttempt,
             lockedUntil |-> IF attempts >= LOCKOUT_ATTEMPTS
                             THEN t + LOCKOUT_DURATION_MS
                             ELSE map[ip].lockedUntil])

\* mutant: the entry is kept
clearRateLimit_Noop(map, ip) == map

clearRateLimit(map, ip) == MapDelete(map, ip)

\* mutant: the sweep deletes every entry whose window is over, locked or not
cleanupSweep_IgnoresLock(map, t) ==
  LET stale == {ip \in DOMAIN map : t - map[ip].firstAttempt > LOGIN_WINDOW_MS}
  IN [k \in (DOMAIN map) \ stale |-> map[k]]

\* the map after one run of the setInterval callback at time t
cleanupSweep(map, t) ==
  LET stale == {ip \in DOMAIN map :
                  t - map[ip].firstAttempt > LOGIN_WINDOW_MS
                  /\ t > map[ip].lockedUntil}
  IN [k \in (DOMAIN map) \ stale |-> map[k]]

\* ------------------------------------------------------------------------
\* IP allowlist
\* ------------------------------------------------------------------------
Includes(s, ch) == \E i \in 1..Len(s) : s[i] = ch
StartsWith(s, prefix) ==
  Len(prefix) <= Len(s) /\ SubSeq(s, 1, Len(prefix)) = prefix
\* 0-based position of the n-th ch of s, Len(s) when s has fewer
NthIndexOf(s, ch, n) ==
  LET hits == {i \in 1..Len(s) : s[i] = ch}
      upTo(i) == Cardinality({j \in hits : j <= i})
  IN IF Cardinality(hits) < n THEN Len(s)
     ELSE (CHOOSE i \in hits : upTo(i) = n) - 1
\* allowed.split("/")[0].split(".").slice(0, 3).join(".")
CidrPrefix(allowed) ==
  LET base == SubSeq(allowed, 1, NthIndexOf(allowed, "/", 1))
  IN SubSeq(base, 1, NthIndexOf(base, ".", 3))

checkIPAllowlist(allowedIps, ip) ==
  IF Len(allowedIps) = 0 THEN TRUE
  ELSE \E i \in 1..Len(allowedIps) :
         LET allowed == allowedIps[i]
         IN IF Includes(allowed, "/")
            THEN StartsWith(ip, CidrPrefix(allowed))
            ELSE ip = allowed

\* allowlists with ranges, and the addresses checked against them
IP_1_0 == <<"1", "0", ".", "0", ".", "1", ".", "0">>
IP_1_7 == <<"1", "0", ".", "0", ".", "1", ".", "7">>
Cidr(base, bits) == base \o <<"/">> \o bits
CidrConfigs ==
  {<<>>,
   <<IP_1_7>>,
   <<Cidr(IP_1_0, <<"2", "4">>)>>,
   <<Cidr(IP_1_0, <<"2", "5">>)>>,
   <<Cidr(IP_1_0, <<"1", "6">>)>>,
   <<Cidr(IP_1_7, <<"3", "2">>)>>,
   <<<<"1", "0", ".", "0", ".", "0", ".", "5">>, Cidr(IP_1_0, <<"2", "4">>)>>,
   <<Cidr(<<"1", "0", ".", "0", ".", "2", ".", "7">>, <<"2", "4">>),
     Cidr(IP_1_0, <<"2", "4">>)>>}
CheckedIPs ==
  {<<"1", "0", ".", "0", ".", "0", ".", "5">>, IP_1_0, IP_1_7,
   <<"1", "0", ".", "0", ".", "1", ".", "2", "0", "0">>,
   <<"1", "0", ".", "0", ".", "2", ".", "7">>,
   <<"1", "0", ".", "0", ".", "1", "0", ".", "7">>,
   <<"1", "0", ".", "0", ".", "1", "0", "0", ".", "7">>,
   <<"1", "0", ".", "1", ".", "1", ".", "7">>}

\* ------------------------------------------------------------------------
\* The address of the caller
\* ------------------------------------------------------------------------
\* the white space and the line terminators String.prototype.trim strips; a
\* character that has no escape in a string is written by its code point
WhiteSpace ==
  {"\t", "\n", "U+000B", "\f", "\r", " ", "U+00A0", "U+1680", "U+2000",
   "U+2001", "U+2002", "U+2003", "U+2004", "U+2005", "U+2006", "U+2007",
   "U+2008", "U+2009", "U+200A", "U+2028", "U+2029", "U+202F", "U+205F",
   "U+3000", "U+FEFF"}
RECURSIVE TrimStart(_)
TrimStart(s) ==
  IF s # <<>> /\ Head(s) \in WhiteSpace THEN TrimStart(Tail(s)) ELSE s
RECURSIVE TrimEnd(_)
TrimEnd(s) ==
  IF s # <<>> /\ s[Len(s)] \in WhiteSpace
  THEN TrimEnd(SubSeq(s, 1, Len(s) - 1)) ELSE s
Trim(s) == TrimEnd(TrimStart(s))

\* h.get("x-forwarded-for")?.split(",")[0]?.trim() || h.get("x-real-ip")
\*   || "unknown", a header that is not sent being Null
getClientIP(forwardedFor, realIp) ==
  LET first == IF forwardedFor = Null THEN <<>>
               ELSE Trim(SubSeq(forwardedFor, 1, NthIndexOf(forwardedFor, ",", 1)))
  IN IF first # <<>> THEN first
     ELSE IF realIp # Null /\ realIp # <<>> THEN realIp
     ELSE <<"u", "n", "k", "n", "o", "w", "n">>

\* the x-forwarded-for and x-real-ip headers a request may carry
ForwardedFor ==
  {Null, <<>>,
   <<" ", "1", "0", ".", "0", ".", "0", ".", "5", " ", ",",
     "1", "0", ".", "0", ".", "0", ".", "6">>,
   <<" ", ",", "1", "0", ".", "0", ".", "0", ".", "5">>,
   <<"1", "0", ".", "0", ".", "0", ".", "5", "\t", ",",
     "1", "0", ".", "0", ".", "0", ".", "6">>,
   <<"\t", "U+00A0", "\r", "\n", ",", "1", "0", ".", "0", ".", "0", ".", "5">>}
RealIp == {Null, <<"1", "0", ".", "0", ".", "0", ".", "6">>}

\* ------------------------------------------------------------------------
\* Definitions over the state
\* ------------------------------------------------------------------------
vars == <<now, ticks, PANEL_PASSWORD_HASH, ALLOWED_IPS, activeSession,
          rateLimitMap, comparing, issued, csrfWait, failedLogins,
          neverSwept, firstSigned,
          requests, ret>>

config == <<PANEL_PASSWORD_HASH, ALLOWED_IPS>>

\* no validateCSRF call is waiting
NoCall == [none |-> TRUE]

\* the requests served at the same time, and a handler not running
Slots == {"a", "b"}
Idle == [route |-> "none", pc |-> "idle", passed |-> <<>>]

\* the address of a request that carries neither header
IP_UNKNOWN == <<"u", "n", "k", "n", "o", "w", "n">>
AllIPs == ReqIPs \cup {IP_UNKNOWN}

LoginCalls == AllIPs \X Passwords
InflightCount == 
  LET RECURSIVE Sum(_)
      Sum(S) == IF S = {} THEN 0
                ELSE LET c == CHOOSE c \in S : TRUE
                     IN comparing[c] + Sum(S \ {c})
  IN Sum(LoginCalls)
GoodInflight ==
  LET RECURSIVE Sum(_)
      Sum(S) == IF S = {} THEN 0
                ELSE LET ip == CHOOSE ip \in S : TRUE
                     IN comparing[<<ip, GoodPassword>>] + Sum(S \ {ip})
  IN Sum(AllIPs)

\* session cookies a client may present once n sessions were issued
Tamper(signed) ==
  [signed EXCEPT ![Len(signed)] = IF signed[Len(signed)] = "0" THEN "1" ELSE "0"]
Cookies(n) ==
  {Undefined}
    \cup {signValue(SessionId(k)) : k \in 1..n}
    \cup {Tamper(signValue(SessionId(k))) : k \in {n} \ {0}}
    \cup {SessionId(k) : k \in {n} \ {0}}
\* the cookie of the latest login, the only one whose validation may change
\* the session slot
LatestCookie(n) == {signValue(SessionId(k)) : k \in {n} \ {0}}
\* values of the x-csrf-token header a client may send
CsrfHeaders(n) ==
  {Null, <<>>, <<"c", "0">>} \cup {CsrfToken(k) : k \in 1..n}

Init ==
  /\ now = StartTime
  /\ ticks = 0
  /\ PANEL_PASSWORD_HASH \in HashConfigs
  /\ ALLOWED_IPS \in AllowlistConfigs
  /\ activeSession = NullSession
  /\ rateLimitMap = <<>>
  /\ comparing = [c \in LoginCalls |-> 0]
  /\ issued = 0
  /\ csrfWait = NoCall
  /\ failedLogins = [ip \in ReqIPs |-> [count |-> 0, since |-> 0]]
  /\ neverSwept = <<>>
  /\ firstSigned = NoCall
  /\ requests = [i \in Slots |-> Idle]
  /\ ret = [op |-> "start"]

\* ------------------------------------------------------------------------
\* Clock and timer
\* ------------------------------------------------------------------------
Tick(d) ==
  /\ now' = now + d
  /\ ticks' = ticks + 1
  /\ ret' = [op |-> "tick"]
  /\ UNCHANGED <<config, activeSession, rateLimitMap, comparing, issued, csrfWait>>

\* the setInterval callback
Cleanup ==
  /\ rateLimitMap' = cleanupSweep(rateLimitMap, now)
  /\ ret' = [op |-> "cleanup"]
  /\ UNCHANGED <<now, ticks, config, activeSession, comparing, issued, csrfWait>>

\* ------------------------------------------------------------------------
\* login(password) from address ip
\* ------------------------------------------------------------------------
\* mutant: a login the allowlist rejects is counted as a failed attempt
LoginCheck_CountsDenied(ip, password) ==
  LET rateCheck == checkRateLimit(rateLimitMap, ip, now)
      call == [op |-> "login", ip |-> ip, password |-> password]
  IN
  /\ UNCHANGED <<now, ticks, config, activeSession, issued, csrfWait>>
  /\ IF ~checkIPAllowlist(ALLOWED_IPS, ip)
     THEN /\ ret' = call @@
                    [out |-> [success |-> FALSE, error |-> "Access denied"]]
          /\ rateLimitMap' = recordFailedAttempt(rateLimitMap, ip, now)
          /\ UNCHANGED comparing
     ELSE IF ~rateCheck.allowed
     THEN /\ rateLimitMap' = rateCheck.map
          /\ ret' = call @@
                    [out |-> [success |-> FALSE,
                              error |-> "Too many attempts. Try again later.",
                              remaining |-> 0,
                              retryAfterMs |-> rateCheck.retryAfterMs]]
          /\ UNCHANGED comparing
     ELSE IF PANEL_PASSWORD_HASH = <<>>
     THEN /\ rateLimitMap' = rateCheck.map
          /\ ret' = call @@
                    [out |-> [success |-> FALSE,
                              error |-> "Panel not configured. Run setup.sh first."]]
          /\ UNCHANGED comparing
     ELSE /\ rateLimitMap' = rateCheck.map
          /\ comparing' = [comparing EXCEPT ![<<ip, password>>] = @ + 1]
          /\ ret' = [call EXCEPT !.op = "login:await"]

\* mutant: the missing hash is not noticed before the comparison
LoginCheck_NoConfigCheck(ip, password) ==
  LET rateCheck == checkRateLimit(rateLimitMap, ip, now)
      call == [op |-> "login", ip |-> ip, password |-> password]
  IN
  /\ UNCHANGED <<now, ticks, config, activeSession, issued, csrfWait>>
  /\ IF ~checkIPAllowlist(ALLOWED_IPS, ip)
     THEN /\ ret' = call @@
                    [out |-> [success |-> FALSE, error |-> "Access denied"]]
          /\ UNCHANGED <<rateLimitMap, comparing>>
     ELSE IF ~rateCheck.allowed
     THEN /\ rateLimitMap' = rateCheck.map
          /\ ret' = call @@
                    [out |-> [success |-> FALSE,
                              error |-> "Too many attempts. Try again later.",
                              remaining |-> 0,
                              retryAfterMs |-> rateCheck.retryAfterMs]]
          /\ UNCHANGED comparing
     ELSE /\ rateLimitMap' = rateCheck.map
          /\ comparing' = [comparing EXCEPT ![<<ip, password>>] = @ + 1]
          /\ ret' = [call EXCEPT !.op = "login:await"]

\* mutant: a login the rate limiter refuses is counted as a failed attempt
LoginCheck_CountsRefused(ip, password) ==
  LET rateCheck == checkRateLimit(rateLimitMap, ip, now)
      call == [op |-> "login", ip |-> ip, password |-> password]
  IN
  /\ UNCHANGED <<now, ticks, config, activeSession, issued, csrfWait>>
  /\ IF ~checkIPAllowlist(ALLOWED_IPS, ip)
     THEN /\ ret' = call @@
                    [out |-> [success |-> FALSE, error |-> "Access denied"]]
          /\ UNCHANGED <<rateLimitMap, comparing>>
     ELSE IF ~rateCheck.allowed
     THEN /\ rateLimitMap' = recordFailedAttempt(rateCheck.map, ip, now)
          /\ ret' = call @@
                    [out |-> [success |-> FALSE,
                              error |-> "Too many attempts. Try again later.",
                              remaining |-> 0,
                              retryAfterMs |-> rateCheck.retryAfterMs]]
          /\ UNCHANGED comparing
     ELSE IF PANEL_PASSWORD_HASH = <<>>
     THEN /\ rateLimitMap' = rateCheck.map
          /\ ret' = call @@
                    [out |-> [success |-> FALSE,
                              error |-> "Panel not configured. Run setup.sh first."]]
          /\ UNCHANGED comparing
     ELSE /\ rateLimitMap' = rateCheck.map
          /\ comparing' = [comparing EXCEPT ![<<ip, password>>] = @ + 1]
          /\ ret' = [call EXCEPT !.op = "login:await"]

\* from the call to `await bcrypt.compare`
LoginCheck(ip, password) ==
  LET rateCheck == checkRateLimit(rateLimitMap, ip, now)
      call == [op |-> "login", ip |-> ip, password |-> password]
  IN
  /\ UNCHANGED <<now, ticks, config, activeSession, issued, csrfWait>>
  /\ IF ~checkIPAllowlist(ALLOWED_IPS, ip)
     THEN /\ ret' = call @@
                    [out |-> [success |-> FALSE, error |-> "Access denied"]]
          /\ UNCHANGED <<rateLimitMap, comparing>>
     ELSE IF ~rateCheck.allowed
     THEN /\ rateLimitMap' = rateCheck.map
          /\ ret' = call @@
                    [out |-> [success |-> FALSE,
                              error |-> "Too many attempts. Try again later.",
                              remaining |-> 0,
                              retryAfterMs |-> rateCheck.retryAfterMs]]
          /\ UNCHANGED comparing
     ELSE IF PANEL_PASSWORD_HASH = <<>>
     THEN /\ rateLimitMap' = rateCheck.map
          /\ ret' = call @@
                    [out |-> [success |-> FALSE,
                              error |-> "Panel not configured. Run setup.sh first."]]
          /\ UNCHANGED comparing
     ELSE /\ rateLimitMap' = rateCheck.map
          /\ comparing' = [comparing EXCEPT ![<<ip, password>>] = @ + 1]
          /\ ret' = [call EXCEPT !.op = "login:await"]

\* from the result of bcrypt.compare to the return
LoginFinish(ip, password) ==
  LET valid == bcryptCompare(password, PANEL_PASSWORD_HASH)
      call == [op |-> "login", ip |-> ip, password |-> password]
  IN
  /\ comparing[<<ip, password>>] > 0
  /\ comparing' = [comparing EXCEPT ![<<ip, password>>] = @ - 1]
  /\ UNCHANGED <<now, ticks, config, csrfWait>>
  /\ IF ~valid
     THEN LET recorded == recordFailedAttempt(rateLimitMap, ip, now)
              updated == checkRateLimit(recorded, ip, now)
          IN /\ rateLimitMap' = updated.map
             /\ ret' = call @@
                       [out |-> [success |-> FALSE, error |-> "Invalid password",
                                 remaining |-> updated.remaining]]
             /\ UNCHANGED <<activeSession, issued>>
     ELSE LET sessionId == SessionId(issued + 1)
              csrfToken == CsrfToken(issued + 1)
          IN /\ rateLimitMap' = clearRateLimit(rateLimitMap, ip)
             /\ activeSession' = [id |-> sessionId, csrfToken |-> csrfToken,
                                  createdAt |-> now, lastActivity |-> now,
                                  ip |-> ip]
             /\ issued' = issued + 1
             /\ ret' = call @@
                       [out |-> [success |-> TRUE],
                        cookies |-> [lsp_session |-> signValue(sessionId),
                                     lsp_csrf |-> csrfToken]]

\* mutant: logout deletes the cookies and keeps the session slot
Logout_CookiesOnly ==
  /\ ret' = [op |-> "logout"]
  /\ UNCHANGED <<now, ticks, config, activeSession, rateLimitMap, comparing,
                 issued, csrfWait>>

Logout ==
  /\ activeSession' = NullSession
  /\ ret' = [op |-> "logout"]
  /\ UNCHANGED <<now, ticks, config, rateLimitMap, comparing, issued, csrfWait>>

\* ------------------------------------------------------------------------
\* Session validation
\* ------------------------------------------------------------------------
\* mutant: the allowlist is not consulted
validateSession_NoAllowlist(session, allowedIps, ip, sessionCookie, t) ==
  IF sessionCookie = Undefined \/ sessionCookie = <<>>
  THEN [valid |-> FALSE, ip |-> ip, session |-> session]
  ELSE LET sessionId == verifySignedValue(sessionCookie)
       IN IF sessionId = Null \/ sessionId = <<>>
          THEN [valid |-> FALSE, ip |-> ip, session |-> session]
          ELSE IF session = NullSession \/ session.id # sessionId
          THEN [valid |-> FALSE, ip |-> ip, session |-> session]
          ELSE IF t - session.createdAt > SESSION_MAX_AGE_MS
          THEN [valid |-> FALSE, ip |-> ip, session |-> NullSession]
          ELSE [valid |-> TRUE, ip |-> ip,
                session |-> [session EXCEPT !.lastActivity = t]]

\* mutant: any verified identifier is accepted while a session is live
validateSession_AnySession(session, allowedIps, ip, sessionCookie, t) ==
  IF ~checkIPAllowlist(allowedIps, ip)
  THEN [valid |-> FALSE, ip |-> ip, session |-> session]
  ELSE IF sessionCookie = Undefined \/ sessionCookie = <<>>
  THEN [valid |-> FALSE, ip |-> ip, session |-> session]
  ELSE LET sessionId == verifySignedValue(sessionCookie)
       IN IF sessionId = Null \/ sessionId = <<>>
          THEN [valid |-> FALSE, ip |-> ip, session |-> session]
          ELSE IF session = NullSession
          THEN [valid |-> FALSE, ip |-> ip, session |-> session]
          ELSE IF t - session.createdAt > SESSION_MAX_AGE_MS
          THEN [valid |-> FALSE, ip |-> ip, session |-> NullSession]
          ELSE [valid |-> TRUE, ip |-> ip,
                session |-> [session EXCEPT !.lastActivity = t]]

\* mutant: a session past its lifetime is refused and kept
validateSession_KeepsExpired(session, allowedIps, ip, sessionCookie, t) ==
  IF ~checkIPAllowlist(allowedIps, ip)
  THEN [valid |-> FALSE, ip |-> ip, session |-> session]
  ELSE IF sessionCookie = Undefined \/ sessionCookie = <<>>
  THEN [valid |-> FALSE, ip |-> ip, session |-> session]
  ELSE LET sessionId == verifySignedValue(sessionCookie)
       IN IF sessionId = Null \/ sessionId = <<>>
          THEN [valid |-> FALSE, ip |-> ip, session |-> session]
          ELSE IF session = NullSession \/ session.id # sessionId
          THEN [valid |-> FALSE, ip |-> ip, session |-> session]
          ELSE IF t - session.createdAt > SESSION_MAX_AGE_MS
          THEN [valid |-> FALSE, ip |-> ip, session |-> session]
          ELSE [valid |-> TRUE, ip |-> ip,
                session |-> [session EXCEPT !.lastActivity = t]]

\* mutant: a successful validation starts the lifetime afresh
validateSession_Renewing(session, allowedIps, ip, sessionCookie, t) ==
  IF ~checkIPAllowlist(allowedIps, ip)
  THEN [valid |-> FALSE, ip |-> ip, session |-> session]
  ELSE IF sessionCookie = Undefined \/ sessionCookie = <<>>
  THEN [valid |-> FALSE, ip |-> ip, session |-> session]
  ELSE LET sessionId == verifySignedValue(sessionCookie)
       IN IF sessionId = Null \/ sessionId = <<>>
          THEN [valid |-> FALSE, ip |-> ip, session |-> session]
          ELSE IF session = NullSession \/ session.id # sessionId
          THEN [valid |-> FALSE, ip |-> ip, session |-> session]
          ELSE IF t - session.createdAt > SESSION_MAX_AGE_MS
          THEN [valid |-> FALSE, ip |-> ip, session |-> NullSession]
          ELSE [valid |-> TRUE, ip |-> ip,
                session |-> [session EXCEPT !.lastActivity = t,
                                            !.createdAt = t]]

\* mutant: the lifetime is measured from lastActivity
validateSession_Sliding(session, allowedIps, ip, sessionCookie, t) ==
  IF ~checkIPAllowlist(allowedIps, ip)
  THEN [valid |-> FALSE, ip |-> ip, session |-> session]
  ELSE IF sessionCookie = Undefined \/ sessionCookie = <<>>
  THEN [valid |-> FALSE, ip |-> ip, session |-> session]
  ELSE LET sessionId == verifySignedValue(sessionCookie)
       IN IF sessionId = Null \/ sessionId = <<>>
          THEN [valid |-> FALSE, ip |-> ip, session |-> session]
          ELSE IF session = NullSession \/ session.id # sessionId
          THEN [valid |-> FALSE, ip |-> ip, session |-> session]
          ELSE IF t - session.lastActivity > SESSION_MAX_AGE_MS
          THEN [valid |-> FALSE, ip |-> ip, session |-> NullSession]
          ELSE [valid |-> TRUE, ip |-> ip,
                session |-> [session EXCEPT !.lastActivity = t]]

\* the value returned and the session slot left behind
validateSession(session, allowedIps, ip, sessionCookie, t) ==
  IF ~checkIPAllowlist(allowedIps, ip)
  THEN [valid |-> FALSE, ip |-> ip, session |-> session]
  ELSE IF sessionCookie = Undefined \/ sessionCookie = <<>>
  THEN [valid |-> FALSE, ip |-> ip, session |-> session]
  ELSE LET sessionId == verifySignedValue(sessionCookie)
       IN IF sessionId = Null \/ sessionId = <<>>
          THEN [valid |-> FALSE, ip |-> ip, session |-> session]
          ELSE IF session = NullSession \/ session.id # sessionId
          THEN [valid |-> FALSE, ip |-> ip, session |-> session]
          ELSE IF t - session.createdAt > SESSION_MAX_AGE_MS
          THEN [valid |-> FALSE, ip |-> ip, session |-> NullSession]
          ELSE [valid |-> TRUE, ip |-> ip,
                session |-> [session EXCEPT !.lastActivity = t]]

\* what requireAuth does with the result of validateSession
requireAuth(r) ==
  IF ~r.valid THEN [throws |-> "AuthError", message |-> "Unauthorized", status |-> 401]
  ELSE [ip |-> r.ip]

\* one call of validateSession, as requireAuth makes it
ValidateSession(ip, sessionCookie) ==
  LET r == validateSession(activeSession, ALLOWED_IPS, ip, sessionCookie, now)
  IN /\ activeSession' = r.session
     /\ ret' = [op |-> "validateSession", ip |-> ip, cookie |-> sessionCookie,
                out |-> [valid |-> r.valid, ip |-> r.ip],
                requireAuth |-> requireAuth(r)]
     /\ UNCHANGED <<now, ticks, config, rateLimitMap, comparing, issued, csrfWait>>

\* validateCSRF up to `await headers()`
ValidateCSRFBegin(csrfHeader) ==
  /\ csrfWait = NoCall
  /\ IF activeSession = NullSession
     THEN /\ ret' = [op |-> "validateCSRF", header |-> csrfHeader, out |-> FALSE]
          /\ UNCHANGED csrfWait
     ELSE /\ csrfWait' = [header |-> csrfHeader]
          /\ ret' = [op |-> "validateCSRF:await", header |-> csrfHeader]
  /\ UNCHANGED <<now, ticks, config, activeSession, rateLimitMap, comparing, issued>>

\* validateCSRF after `await headers()`: the value returned, or the
\* TypeError of reading csrfToken of null when the session went away meanwhile
validateCSRF(session, csrfHeader) ==
  IF csrfHeader = Null \/ csrfHeader = <<>> THEN [out |-> FALSE]
  ELSE IF session = NullSession THEN [throws |-> "TypeError"]
  ELSE [out |-> csrfHeader = session.csrfToken]

ValidateCSRFEnd ==
  /\ csrfWait # NoCall
  /\ csrfWait' = NoCall
  /\ ret' = [op |-> "validateCSRF", header |-> csrfWait.header]
               @@ validateCSRF(activeSession, csrfWait.header)
  /\ UNCHANGED <<now, ticks, config, activeSession, rateLimitMap, comparing, issued>>

\* ------------------------------------------------------------------------
\* Services, systemctl and env files
\* ------------------------------------------------------------------------
NameChars ==
  {"a", "b", "c", "d", "e", "f", "g", "h", "i", "j", "k", "l", "m",
   "n", "o", "p", "q", "r", "s", "t", "u", "v", "w", "x", "y", "z",
   "A", "B", "C", "D", "E", "F", "G", "H", "I", "J", "K", "L", "M",
   "N", "O", "P", "Q", "R", "S", "T", "U", "V", "W", "X", "Y", "Z",
   "0", "1", "2", "3", "4", "5", "6", "7", "8", "9", "_", "-"}

\* SERVICE_NAME_RE.test(name) && name.length <= 128
validateServiceName(name) ==
  /\ Len(name) >= 1
  /\ \A i \in 1..Len(name) : name[i] \in NameChars
  /\ Len(name) <= 128

validateAction(action) ==
  action \in {"start", "stop", "restart", "status", "show", "is-active",
              "list-units"}

\* the service names a request may carry
WEB == <<"w", "e", "b">>
DB == <<"d", "b">>
NOPE == <<"n", "o", "p", "e">>
DOTS == <<".", ".", "/", "x">>
CADDY == <<"c", "a", "d", "d", "y">>
LIGHTSAIL_PANEL ==
  <<"l", "i", "g", "h", "t", "s", "a", "i", "l", "-", "p", "a", "n", "e", "l">>
ServiceNames == {WEB, DB, CADDY, NOPE, DOTS}
WebEnvFile == <<"/", "s", "r", "v", "/", "w", "e", "b", "/", ".", "e", "n", "v">>

DotService == <<".", "s", "e", "r", "v", "i", "c", "e">>

EXCLUDED_SERVICES == {LIGHTSAIL_PANEL, CADDY}

\* the *.service files of /etc/systemd/system in the order readdir lists
\* them, each with what parseUnitFile finds in it: web.service with a
\* WorkingDirectory and an EnvironmentFile, db.service with a WorkingDirectory
\* only, ssh.service with neither, and the two units the panel leaves out
UnitFiles ==
  <<[file |-> WEB \o DotService,
     workingDir |-> <<"/", "s", "r", "v", "/", "w", "e", "b">>,
     envFile |-> WebEnvFile],
    [file |-> CADDY \o DotService, workingDir |-> Null, envFile |-> Null],
    [file |-> <<"s", "s", "h">> \o DotService, workingDir |-> Null,
     envFile |-> Null],
    [file |-> DB \o DotService,
     workingDir |-> <<"/", "s", "r", "v", "/", "d", "b">>, envFile |-> Null],
    [file |-> LIGHTSAIL_PANEL \o DotService,
     workingDir |-> <<"/", "o", "p", "t", "/", "p", "a", "n", "e", "l">>,
     envFile |-> Null]>>

\* a.localeCompare(b) < 0 for names of lower-case letters and "-"
RECURSIVE NameBefore(_, _)
NameBefore(a, b) ==
  LET order ==
        <<"-", "a", "b", "c", "d", "e", "f", "g", "h", "i", "j", "k", "l", "m",
          "n", "o", "p", "q", "r", "s", "t", "u", "v", "w", "x", "y", "z">>
      rank(c) == CHOOSE k \in DOMAIN order : order[k] = c
  IN IF b = <<>> THEN FALSE
     ELSE IF a = <<>> THEN TRUE
     ELSE IF Head(a) = Head(b) THEN NameBefore(Tail(a), Tail(b))
     ELSE rank(Head(a)) < rank(Head(b))

\* services.sort((a, b) => a.name.localeCompare(b.name))
RECURSIVE SortByName(_)
SortByName(services) ==
  IF services = <<>> THEN <<>>
  ELSE LET first == CHOOSE i \in DOMAIN services :
                      \A j \in DOMAIN services :
                        j = i \/ NameBefore(services[i].name, services[j].name)
                           \/ (services[i].name = services[j].name /\ i < j)
           rest == [k \in 1..(Len(services) - 1) |->
                      IF k < first THEN services[k] ELSE services[k + 1]]
       IN <<services[first]>> \o SortByName(rest)

\* the units discovered: not excluded, with a valid name and a
\* WorkingDirectory, sorted by name
discoverServices ==
  LET name(i) == SubSeq(UnitFiles[i].file, 1,
                        Len(UnitFiles[i].file) - Len(DotService))
      kept == SelectSeq([i \in DOMAIN UnitFiles |-> i],
                LAMBDA i : /\ name(i) \notin EXCLUDED_SERVICES
                           /\ validateServiceName(name(i))
                           /\ UnitFiles[i].workingDir # Null)
  IN SortByName([k \in DOMAIN kept |->
                   [name |-> name(kept[k]), unit |-> UnitFiles[kept[k]].file,
                    envFile |-> UnitFiles[kept[k]].envFile]])

NoService == [null |-> TRUE]

\* one command handed to execFile
Command(argv0, action, target, timestamp, stdin) ==
  [argv0 |-> argv0, action |-> action, target |-> target,
   timestamp |-> timestamp, stdin |-> stdin]

\* `sudo systemctl show <unit> --property=...`; the service is returned
\* whether the command succeeds or fails
enrichWithStatus(service) ==
  [out |-> service,
   commands |-> <<Command("systemctl", "show", service.unit, 0, <<>>)>>]

\* the service found, or null, and the commands run
getServiceStatus(serviceName) ==
  LET found == {i \in DOMAIN discoverServices :
                  discoverServices[i].name = serviceName}
  IN IF found = {} THEN [out |-> NoService, commands |-> <<>>]
     ELSE enrichWithStatus(
            discoverServices[CHOOSE i \in found : \A j \in found : i <= j])

EndsWith(s, suffix) ==
  /\ Len(s) >= Len(suffix)
  /\ SubSeq(s, Len(s) - Len(suffix) + 1, Len(s)) = suffix

\* the commands run, and whether the call throws: for an action or a name
\* that is not valid before any command, else when the command failed on the
\* host (ok is the outcome of execFile, which safeExec turns into a
\* ShellError)
systemctl(action, serviceName, ok) ==
  IF ~validateAction(action) \/ ~validateServiceName(serviceName)
  THEN [throws |-> TRUE, commands |-> <<>>]
  ELSE LET unit == IF EndsWith(serviceName, DotService) THEN serviceName
                   ELSE serviceName \o DotService
       IN [throws |-> ~ok,
           commands |-> <<Command("systemctl", action, unit, 0, <<>>)>>]

serviceAction(serviceName, action, ok) == systemctl(action, serviceName, ok)

\* the values of a JSON body: strings and numbers
Str(s) == [string |-> s]
Num(n) == [number |-> n]
typeof(v) == IF "string" \in DOMAIN v THEN "string" ELSE "number"
\* !v
Falsy(v) == IF typeof(v) = "string" THEN v.string = "" ELSE v.number = 0

\* entries.map((e) => `${e.key}=${e.value}`).join("\n") + "\n", of entries
\* whose keys and values are strings
RECURSIVE JoinLines(_)
JoinLines(entries) ==
  IF entries = <<>> THEN <<>>
  ELSE IF Len(entries) = 1
  THEN <<entries[1].key.string, "=", entries[1].value.string>>
  ELSE <<entries[1].key.string, "=", entries[1].value.string, "\n">>
         \o JoinLines(Tail(entries))

\* the backup, then the new content through `sudo tee`; each of the two
\* commands succeeds or fails, and a failed backup ends the call
writeEnvFile(envPath, entries, t, cpOk, teeOk) ==
  LET cp == Command("cp", "", envPath, t, <<>>)
      tee == Command("tee", "", envPath, 0, JoinLines(entries) \o <<"\n">>)
  IN IF ~cpOk THEN [throws |-> TRUE, commands |-> <<cp>>]
     ELSE [throws |-> ~teeOk, commands |-> <<cp, tee>>]

verifyPassword(hash, password) ==
  IF hash = <<>> THEN FALSE ELSE bcryptCompare(password, hash)

\* ------------------------------------------------------------------------
\* Route handlers of the mutating operations
\* ------------------------------------------------------------------------
Routes == {"service", "env", "logout"}

\* mutant: a false validateCSRF does not stop the request
requireCSRF_NoThrow(v) ==
  IF "throws" \in DOMAIN v THEN v
  ELSE [ok |-> TRUE]

\* what requireCSRF does with the outcome of validateCSRF
requireCSRF(v) ==
  IF "throws" \in DOMAIN v THEN v
  ELSE IF ~v.out
  THEN [throws |-> "AuthError", message |-> "Invalid CSRF token", status |-> 403]
  ELSE [ok |-> TRUE]

\* the catch block of a route
Catch(route, err) ==
  IF err.throws = "AuthError"
  THEN [status |-> err.status, error |-> err.message]
  ELSE [status |-> 500,
        error |-> CASE route = "service" -> "Failed to perform action"
                    [] route = "env" -> "Failed to write env file"
                    [] OTHER -> "Internal error"]

\* the bodies a request may carry
Actions == {"", "restart", "reload"}
BodyPasswords == {Str(""), Str(GoodPassword), Str("letmein"), Num(123)}
NotArray == [isArray |-> FALSE, items |-> <<>>]
Array(items) == [isArray |-> TRUE, items |-> items]
BodyEntries ==
  {NotArray,
   Array(<<[key |-> Str("PORT"), value |-> Str("8080")]>>),
   Array(<<[key |-> Str("PORT"), value |-> Str("8080")],
           [key |-> Str(""), value |-> Str("x")]>>),
   Array(<<[key |-> Str("PORT"), value |-> Num(8080)]>>),
   Array(<<[key |-> Num(5), value |-> Str("x")]>>)}

\* !entry.key || typeof entry.key !== "string" || typeof entry.value !== "string"
InvalidEntry(entry) ==
  \/ Falsy(entry.key)
  \/ typeof(entry.key) # "string"
  \/ typeof(entry.value) # "string"

\* a handler up to the return of `await requireAuth()`
RouteStart(i, route, ip, sessionCookie) ==
  LET r == validateSession(activeSession, ALLOWED_IPS, ip, sessionCookie, now)
      call == [route |-> route, step |-> "requireAuth",
               ip |-> ip, cookie |-> sessionCookie]
  IN /\ requests[i] = Idle
     /\ activeSession' = r.session
     /\ IF ~r.valid
        THEN /\ ret' = call @@ [op |-> "route",
                                response |-> Catch(route, requireAuth(r))]
             /\ UNCHANGED requests
        ELSE /\ ret' = call @@ [op |-> "route:await"]
             /\ requests' = [requests EXCEPT
                               ![i] = [route |-> route, pc |-> "requireCSRF",
                                       passed |-> <<"requireAuth">>]]
     /\ UNCHANGED <<now, ticks, config, rateLimitMap, comparing, issued,
                    csrfWait, failedLogins, neverSwept, firstSigned>>

\* the same step of a request whose x-csrf-token header is kept with it from
\* its arrival, as is its cookie
RequestStart(i, route, ip, sessionCookie, csrfHeader) ==
  LET r == validateSession(activeSession, ALLOWED_IPS, ip, sessionCookie, now)
      call == [route |-> route, step |-> "requireAuth",
               ip |-> ip, cookie |-> sessionCookie, header |-> csrfHeader]
  IN /\ requests[i] = Idle
     /\ activeSession' = r.session
     /\ IF ~r.valid
        THEN /\ ret' = call @@ [op |-> "route",
                                response |-> Catch(route, requireAuth(r))]
             /\ UNCHANGED requests
        ELSE /\ ret' = call @@ [op |-> "route:await"]
             /\ requests' = [requests EXCEPT
                               ![i] = [route |-> route, pc |-> "requireCSRF",
                                       passed |-> <<"requireAuth">>,
                                       cookie |-> sessionCookie,
                                       header |-> csrfHeader]]
     /\ UNCHANGED <<now, ticks, config, rateLimitMap, comparing, issued,
                    csrfWait, failedLogins, neverSwept, firstSigned>>

\* requireCSRF up to `await headers()` in validateCSRF
RouteCsrfBegin(i) ==
  LET call == [route |-> requests[i].route, step |-> "requireCSRF"]
  IN /\ requests[i].pc = "requireCSRF"
     /\ IF activeSession = NullSession
        THEN /\ ret' = call @@
                  [op |-> "route",
                   response |-> Catch(requests[i].route,
                                      requireCSRF([out |-> FALSE]))]
             /\ requests' = [requests EXCEPT ![i] = Idle]
        ELSE /\ ret' = call @@ [op |-> "route:await"]
             /\ requests' = [requests EXCEPT ![i].pc = "headers"]
     /\ UNCHANGED <<now, ticks, config, activeSession, rateLimitMap, comparing,
                    issued, csrfWait, failedLogins, neverSwept,
                    firstSigned>>

\* requireCSRF from `await headers()` on
RouteCsrfEnd(i, csrfHeader) ==
  LET guard == requireCSRF(validateCSRF(activeSession, csrfHeader))
      call == [route |-> requests[i].route, step |-> "requireCSRF",
               header |-> csrfHeader]
  IN /\ requests[i].pc = "headers"
     /\ IF "throws" \in DOMAIN guard
        THEN /\ ret' = call @@ [op |-> "route",
                                response |-> Catch(requests[i].route, guard)]
             /\ requests' = [requests EXCEPT ![i] = Idle]
        ELSE /\ ret' = call @@ [op |-> "route:await"]
             /\ requests' = [requests EXCEPT
                               ![i].pc = "handler",
                               ![i].passed = Append(@, "requireCSRF")]
     /\ UNCHANGED <<now, ticks, config, activeSession, rateLimitMap, comparing,
                    issued, csrfWait, failedLogins, neverSwept,
                    firstSigned>>

\* POST /api/services/[name] from the guards to `await serviceAction(name,
\* action)`, where the handler waits for the systemctl command it started;
\* commands are the host commands the request has started so far, in order
ServiceHandler(i, name, action) ==
  LET r == requests[i]
      call == [route |-> "service", step |-> "handler", name |-> name,
               action |-> action]
      refused(error) ==
        /\ requests' = [requests EXCEPT ![i] = Idle]
        /\ ret' = call @@ [op |-> "route",
                           response |-> [status |-> 400, error |-> error],
                           calls |-> r.passed, commands |-> <<>>]
  IN /\ r.route = "service"
     /\ r.pc = "handler"
     /\ IF ~validateServiceName(name) THEN refused("Invalid service name")
        ELSE IF action = "" \/ action \notin {"start", "stop", "restart"}
        THEN refused("Invalid action")
        ELSE LET calls == r.passed \o <<"audit", "serviceAction">>
                 commands == serviceAction(name, action, TRUE).commands
             IN /\ requests' = [requests EXCEPT ![i] =
                                  [pc |-> "serviceAction", passed |-> calls,
                                   name |-> name, action |-> action,
                                   commands |-> commands] @@ r]
                /\ ret' = call @@ [op |-> "route:await", calls |-> calls,
                                   commands |-> commands]
     /\ UNCHANGED <<now, ticks, config, activeSession, rateLimitMap, comparing,
                    issued, csrfWait, failedLogins, neverSwept,
                    firstSigned>>

\* from the end of the systemctl command, which succeeded or failed on the
\* host, to the catch block when it failed; else into getServiceStatus, to
\* `await safeExec("sudo", ["systemctl", "show", ...])` or, for a unit that is
\* not among the services discovered, to the response
ServiceActionDone(i, ok) ==
  LET r == requests[i]
      call == [route |-> "service", step |-> "serviceAction",
               name |-> r.name, action |-> r.action, ok |-> ok]
      found == getServiceStatus(r.name)
      calls == Append(r.passed, "getServiceStatus")
  IN /\ r.route = "service"
     /\ r.pc = "serviceAction"
     /\ IF serviceAction(r.name, r.action, ok).throws
        THEN /\ requests' = [requests EXCEPT ![i] = Idle]
             /\ ret' = call @@
                  [op |-> "route",
                   response |-> Catch("service", [throws |-> "ShellError"]),
                   calls |-> r.passed, commands |-> r.commands]
        ELSE IF found.commands = <<>>
        THEN /\ requests' = [requests EXCEPT ![i] = Idle]
             /\ ret' = call @@
                  [op |-> "route", response |-> [status |-> 200, error |-> ""],
                   calls |-> calls, commands |-> r.commands]
        ELSE /\ requests' = [requests EXCEPT ![i] =
                               [pc |-> "getServiceStatus", passed |-> calls,
                                commands |-> r.commands \o found.commands] @@ r]
             /\ ret' = call @@ [op |-> "route:await", calls |-> calls,
                                commands |-> r.commands \o found.commands]
     /\ UNCHANGED <<now, ticks, config, activeSession, rateLimitMap, comparing,
                    issued, csrfWait, failedLogins, neverSwept,
                    firstSigned>>

\* from the end of `systemctl show`, which enrichWithStatus lets succeed or
\* fail alike, to the response
ServiceStatusDone(i) ==
  LET r == requests[i]
  IN /\ r.route = "service"
     /\ r.pc = "getServiceStatus"
     /\ requests' = [requests EXCEPT ![i] = Idle]
     /\ ret' = [op |-> "route", route |-> "service",
                step |-> "getServiceStatus", name |-> r.name,
                action |-> r.action,
                response |-> [status |-> 200, error |-> ""],
                calls |-> r.passed, commands |-> r.commands]
     /\ UNCHANGED <<now, ticks, config, activeSession, rateLimitMap, comparing,
                    issued, csrfWait, failedLogins, neverSwept,
                    firstSigned>>

\* PUT /api/services/[name]/env from the guards to `await
\* verifyPassword(password)`, where the handler waits for bcrypt.compare; with
\* no hash configured verifyPassword is false without a comparison
EnvHandler(i, name, password, entries) ==
  LET r == requests[i]
      call == [route |-> "env", step |-> "handler", name |-> name,
               password |-> password, entries |-> entries]
      calls == Append(r.passed, "verifyPassword")
      refused(status, error, made) ==
        /\ requests' = [requests EXCEPT ![i] = Idle]
        /\ ret' = call @@ [op |-> "route",
                           response |-> [status |-> status, error |-> error],
                           calls |-> made, commands |-> <<>>]
  IN /\ r.route = "env"
     /\ r.pc = "handler"
     /\ IF ~validateServiceName(name)
        THEN refused(400, "Invalid service name", r.passed)
        ELSE IF Falsy(password) \/ typeof(password) # "string"
        THEN refused(400, "Password confirmation required", r.passed)
        ELSE IF PANEL_PASSWORD_HASH = <<>>
        THEN refused(403, "Invalid password", calls)
        ELSE /\ requests' = [requests EXCEPT ![i] =
                               [pc |-> "verifyPassword", passed |-> calls,
                                name |-> name, password |-> password,
                                entries |-> entries, commands |-> <<>>] @@ r]
             /\ ret' = call @@ [op |-> "route:await", calls |-> calls,
                                commands |-> <<>>]
     /\ UNCHANGED <<now, ticks, config, activeSession, rateLimitMap, comparing,
                    issued, csrfWait, failedLogins, neverSwept,
                    firstSigned>>

\* mutant: the outcome of the comparison is not looked at
EnvPasswordDone_NoStepUp(i) ==
  LET r == requests[i]
      call == [route |-> "env", step |-> "verifyPassword", name |-> r.name,
               password |-> r.password, entries |-> r.entries]
      found == getServiceStatus(r.name)
      calls == Append(r.passed, "getServiceStatus")
      refused(status, error, made) ==
        /\ requests' = [requests EXCEPT ![i] = Idle]
        /\ ret' = call @@ [op |-> "route",
                           response |-> [status |-> status, error |-> error],
                           calls |-> made, commands |-> r.commands]
  IN /\ r.route = "env"
     /\ r.pc = "verifyPassword"
     /\ IF ~r.entries.isArray
        THEN refused(400, "Invalid entries", r.passed)
        ELSE IF found.out = NoService
        THEN refused(404, "Service not found", calls)
        ELSE /\ requests' = [requests EXCEPT ![i] =
                               [pc |-> "getServiceStatus", passed |-> calls,
                                commands |-> r.commands \o found.commands] @@ r]
             /\ ret' = call @@ [op |-> "route:await", calls |-> calls,
                                commands |-> r.commands \o found.commands]
     /\ UNCHANGED <<now, ticks, config, activeSession, rateLimitMap, comparing,
                    issued, csrfWait, failedLogins, neverSwept,
                    firstSigned>>

\* mutant: a wrong password of the step-up counts as a failed login
EnvPasswordDone_CountsFailure(i) ==
  LET r == requests[i]
      call == [route |-> "env", step |-> "verifyPassword", name |-> r.name,
               password |-> r.password, entries |-> r.entries]
      found == getServiceStatus(r.name)
      calls == Append(r.passed, "getServiceStatus")
      refused(status, error, made) ==
        /\ requests' = [requests EXCEPT ![i] = Idle]
        /\ ret' = call @@ [op |-> "route",
                           response |-> [status |-> status, error |-> error],
                           calls |-> made, commands |-> r.commands]
  IN /\ r.route = "env"
     /\ r.pc = "verifyPassword"
     /\ IF ~verifyPassword(PANEL_PASSWORD_HASH, r.password.string)
        THEN /\ refused(403, "Invalid password", r.passed)
             /\ rateLimitMap' = recordFailedAttempt(rateLimitMap, IP_5, now)
        ELSE /\ UNCHANGED rateLimitMap
             /\ IF ~r.entries.isArray
                THEN refused(400, "Invalid entries", r.passed)
                ELSE IF found.out = NoService
                THEN refused(404, "Service not found", calls)
                ELSE /\ requests' = [requests EXCEPT ![i] =
                                       [pc |-> "getServiceStatus",
                                        passed |-> calls,
                                        commands |->
                                          r.commands \o found.commands] @@ r]
                     /\ ret' = call @@
                          [op |-> "route:await", calls |-> calls,
                           commands |-> r.commands \o found.commands]
     /\ UNCHANGED <<now, ticks, config, activeSession, comparing,
                    issued, csrfWait, failedLogins, neverSwept,
                    firstSigned>>

\* from the end of bcrypt.compare to the response of a request refused; else
\* into getServiceStatus, to `await safeExec("sudo", ["systemctl", "show",
\* ...])`
EnvPasswordDone(i) ==
  LET r == requests[i]
      call == [route |-> "env", step |-> "verifyPassword", name |-> r.name,
               password |-> r.password, entries |-> r.entries]
      found == getServiceStatus(r.name)
      calls == Append(r.passed, "getServiceStatus")
      refused(status, error, made) ==
        /\ requests' = [requests EXCEPT ![i] = Idle]
        /\ ret' = call @@ [op |-> "route",
                           response |-> [status |-> status, error |-> error],
                           calls |-> made, commands |-> r.commands]
  IN /\ r.route = "env"
     /\ r.pc = "verifyPassword"
     /\ IF ~verifyPassword(PANEL_PASSWORD_HASH, r.password.string)
        THEN refused(403, "Invalid password", r.passed)
        ELSE IF ~r.entries.isArray
        THEN refused(400, "Invalid entries", r.passed)
        ELSE IF found.out = NoService
        THEN refused(404, "Service not found", calls)
        ELSE /\ requests' = [requests EXCEPT ![i] =
                               [pc |-> "getServiceStatus", passed |-> calls,
                                commands |-> r.commands \o found.commands] @@ r]
             /\ ret' = call @@ [op |-> "route:await", calls |-> calls,
                                commands |-> r.commands \o found.commands]
     /\ UNCHANGED <<now, ticks, config, activeSession, rateLimitMap, comparing,
                    issued, csrfWait, failedLogins, neverSwept,
                    firstSigned>>

\* from the end of `systemctl show`, which enrichWithStatus lets succeed or
\* fail alike, to the response of a request refused; else into writeEnvFile,
\* which takes the timestamp and waits at `await safeExec("sudo", ["cp", ...])`
EnvStatusDone(i) ==
  LET r == requests[i]
      call == [route |-> "env", step |-> "getServiceStatus", name |-> r.name,
               password |-> r.password, entries |-> r.entries]
      service == getServiceStatus(r.name).out
      calls == r.passed \o <<"audit", "writeEnvFile">>
      commands ==
        Append(r.commands, writeEnvFile(service.envFile, r.entries.items, now,
                                        TRUE, TRUE).commands[1])
      refused(status, error) ==
        /\ requests' = [requests EXCEPT ![i] = Idle]
        /\ ret' = call @@ [op |-> "route",
                           response |-> [status |-> status, error |-> error],
                           calls |-> r.passed, commands |-> r.commands]
  IN /\ r.route = "env"
     /\ r.pc = "getServiceStatus"
     /\ IF service.envFile = Null
        THEN refused(404, "No env file configured")
        ELSE IF \E k \in 1..Len(r.entries.items) :
                  InvalidEntry(r.entries.items[k])
        THEN refused(400, "Invalid entry format")
        ELSE /\ requests' = [requests EXCEPT ![i] =
                               [pc |-> "cp", passed |-> calls,
                                timestamp |-> now, commands |-> commands] @@ r]
             /\ ret' = call @@ [op |-> "route:await", calls |-> calls,
                                commands |-> commands]
     /\ UNCHANGED <<now, ticks, config, activeSession, rateLimitMap, comparing,
                    issued, csrfWait, failedLogins, neverSwept,
                    firstSigned>>

\* mutant: the content is written whether the backup succeeded or not
EnvBackupDone_IgnoresFailure(i, ok) ==
  LET r == requests[i]
      write == writeEnvFile(getServiceStatus(r.name).out.envFile,
                            r.entries.items, r.timestamp, TRUE, TRUE)
      commands == Append(r.commands, write.commands[2])
  IN /\ r.pc = "cp"
     /\ requests' = [requests EXCEPT ![i] =
                       [pc |-> "tee", commands |-> commands] @@ r]
     /\ ret' = [op |-> "route:await", route |-> "env", step |-> "backup",
                backup |-> ok, name |-> r.name, password |-> r.password,
                entries |-> r.entries, calls |-> r.passed,
                commands |-> commands]
     /\ UNCHANGED <<now, ticks, config, activeSession, rateLimitMap, comparing,
                    issued, csrfWait, failedLogins, neverSwept,
                    firstSigned>>

\* from the end of the backup copy, which succeeded or threw a ShellError, to
\* the start of `sudo tee` or to the catch block of the route
EnvBackupDone(i, ok) ==
  LET r == requests[i]
      call == [route |-> "env", step |-> "backup", backup |-> ok,
               name |-> r.name, password |-> r.password,
               entries |-> r.entries, calls |-> r.passed]
      write == writeEnvFile(getServiceStatus(r.name).out.envFile,
                            r.entries.items, r.timestamp, ok, TRUE)
  IN /\ r.pc = "cp"
     /\ IF write.throws
        THEN /\ requests' = [requests EXCEPT ![i] = Idle]
             /\ ret' = call @@
                  [op |-> "route", commands |-> r.commands,
                   response |-> Catch("env", [throws |-> "ShellError"])]
        ELSE LET commands == Append(r.commands, write.commands[2])
             IN /\ requests' = [requests EXCEPT ![i] =
                                  [pc |-> "tee", commands |-> commands] @@ r]
                /\ ret' = call @@ [op |-> "route:await",
                                   commands |-> commands]
     /\ UNCHANGED <<now, ticks, config, activeSession, rateLimitMap, comparing,
                    issued, csrfWait, failedLogins, neverSwept,
                    firstSigned>>

\* from the end of `sudo tee`, which succeeded or failed, to the response
EnvTeeDone(i, ok) ==
  LET r == requests[i]
      write == writeEnvFile(getServiceStatus(r.name).out.envFile,
                            r.entries.items, r.timestamp, TRUE, ok)
  IN /\ r.pc = "tee"
     /\ requests' = [requests EXCEPT ![i] = Idle]
     /\ ret' = [op |-> "route", route |-> "env", step |-> "tee",
                name |-> r.name, password |-> r.password,
                entries |-> r.entries, calls |-> r.passed,
                commands |-> r.commands,
                response |-> IF write.throws
                             THEN Catch("env", [throws |-> "Error"])
                             ELSE [status |-> 200, error |-> ""]]
     /\ UNCHANGED <<now, ticks, config, activeSession, rateLimitMap, comparing,
                    issued, csrfWait, failedLogins, neverSwept,
                    firstSigned>>

LogoutHandler(i) ==
  /\ requests[i].route = "logout"
  /\ requests[i].pc = "handler"
  /\ requests' = [requests EXCEPT ![i] = Idle]
  /\ activeSession' = NullSession
  /\ ret' = [op |-> "route", route |-> "logout",
             step |-> "handler", response |-> [status |-> 200, error |-> ""],
             calls |-> requests[i].passed \o <<"logout">>,
             commands |-> <<>>,
             cookies |-> [lsp_session |-> Undefined, lsp_csrf |-> Undefined]]
  /\ UNCHANGED <<now, ticks, config, rateLimitMap, comparing, issued,
                 csrfWait, failedLogins, neverSwept, firstSigned>>

\* ------------------------------------------------------------------------
\* Specifications
\* ------------------------------------------------------------------------
\* failed attempts the table counts at present
TotalAttempts ==
  LET RECURSIVE Sum(_)
      Sum(S) == IF S = {} THEN 0
                ELSE LET ip == CHOOSE ip \in S : TRUE
                     IN rateLimitMap[ip].attempts + Sum(S \ {ip})
  IN Sum(DOMAIN rateLimitMap)

\* the bounds on the login calls of one behaviour
LoginBound(password, overlap, failures, sessions) ==
  /\ InflightCount < overlap
  /\ password # GoodPassword =>
       TotalAttempts + (InflightCount - GoodInflight) < failures
  /\ password = GoodPassword => issued + GoodInflight < sessions

\* login calls that reached bcrypt.compare and are counted, issued a session
\* or still wait
LoginsSoFar == issued + TotalAttempts + InflightCount

\* observer: the login calls of each address that failed with a wrong
\* password, refused or compared, counted from the first of them and again
\* from the first one more than a window later; a successful login starts the
\* count afresh
CountFailedLogins ==
  /\ UNCHANGED <<neverSwept, firstSigned>>
  /\ failedLogins' =
    IF ret'.op # "login" THEN failedLogins
    ELSE IF ret'.out.success
    THEN [failedLogins EXCEPT ![ret'.ip] = [count |-> 0, since |-> 0]]
    ELSE IF \/ ret'.password = GoodPassword
            \/ ret'.out.error \notin {"Invalid password",
                                      "Too many attempts. Try again later."}
    THEN failedLogins
    ELSE LET seen == failedLogins[ret'.ip]
         IN IF seen.count = 0 \/ now - seen.since > LOGIN_WINDOW_MS
            THEN [failedLogins EXCEPT ![ret'.ip] = [count |-> 1, since |-> now]]
            ELSE [failedLogins EXCEPT ![ret'.ip].count = @ + 1]

\* observer: the failures recorded for each address, that is its login calls
\* that returned "Invalid password", counted from the first of them and again
\* from the first one more than a window later; a successful login starts the
\* count afresh
CountRecordedFailures ==
  /\ UNCHANGED <<neverSwept, firstSigned>>
  /\ failedLogins' =
    IF ret'.op # "login" THEN failedLogins
    ELSE IF ret'.out.success
    THEN [failedLogins EXCEPT ![ret'.ip] = [count |-> 0, since |-> 0]]
    ELSE IF ret'.out.error # "Invalid password" THEN failedLogins
    ELSE LET seen == failedLogins[ret'.ip]
         IN IF seen.count = 0 \/ now - seen.since > LOGIN_WINDOW_MS
            THEN [failedLogins EXCEPT ![ret'.ip] = [count |-> 1, since |-> now]]
            ELSE [failedLogins EXCEPT ![ret'.ip].count = @ + 1]

\* no route handler takes a step
NoRoute == UNCHANGED requests

\* observer: what a login step does and returns on the table that was never
\* swept
UnsweptLogin ==
  LET ip == ret'.ip
      rateCheck == checkRateLimit(neverSwept, ip, now)
      failure(error) == [success |-> FALSE, error |-> error]
  IN IF ret'.op = "login:await"
     THEN [map |-> rateCheck.map, out |-> [awaits |-> rateCheck.allowed]]
     ELSE IF comparing' = comparing
     THEN IF ~checkIPAllowlist(ALLOWED_IPS, ip)
          THEN [map |-> neverSwept, out |-> failure("Access denied")]
          ELSE IF ~rateCheck.allowed
          THEN [map |-> rateCheck.map,
                out |-> failure("Too many attempts. Try again later.") @@
                        [remaining |-> 0,
                         retryAfterMs |-> rateCheck.retryAfterMs]]
          ELSE [map |-> rateCheck.map,
                out |-> failure("Panel not configured. Run setup.sh first.")]
     ELSE IF ~bcryptCompare(ret'.password, PANEL_PASSWORD_HASH)
     THEN LET updated == checkRateLimit(
                           recordFailedAttempt(neverSwept, ip, now), ip, now)
          IN [map |-> updated.map,
              out |-> failure("Invalid password") @@
                      [remaining |-> updated.remaining]]
     ELSE [map |-> clearRateLimit(neverSwept, ip), out |-> [success |-> TRUE]]

TrackUnswept ==
  /\ neverSwept' = IF ret'.op \in {"login", "login:await"}
                   THEN UnsweptLogin.map ELSE neverSwept
  /\ UNCHANGED <<failedLogins, firstSigned>>

\* the observers stay as they are
Uncounted == UNCHANGED <<failedLogins, neverSwept, firstSigned>>

\* login, logout and session validation, beside the clock and the timer
Next ==
  \/ \E d \in SessionTickSteps : ticks < MaxTicks /\ Tick(d) /\ Uncounted /\ NoRoute
  \/ Cleanup /\ Uncounted /\ NoRoute
  \/ \E ip \in ReqIPs, password \in Passwords :
       /\ LoginsSoFar < MaxLogins
       /\ LoginCheck(ip, password)
       /\ Uncounted /\ NoRoute
  \/ \E ip \in ReqIPs, password \in Passwords :
       LoginFinish(ip, password) /\ Uncounted /\ NoRoute
  \/ Logout /\ Uncounted /\ NoRoute
  \/ \E ip \in ReqIPs, sessionCookie \in Cookies(issued) :
       ValidateSession(ip, sessionCookie) /\ Uncounted /\ NoRoute

Spec == Init /\ [][Next]_vars

\* CSRF validation, beside the steps that set and clear the session
NextCsrf ==
  \/ \E d \in SessionTickSteps : ticks < MaxTicks /\ Tick(d) /\ Uncounted /\ NoRoute
  \/ Cleanup /\ Uncounted /\ NoRoute
  \/ \E ip \in ReqIPs, password \in Passwords :
       /\ LoginsSoFar < MaxLogins
       /\ LoginCheck(ip, password)
       /\ Uncounted /\ NoRoute
  \/ \E ip \in ReqIPs, password \in Passwords :
       LoginFinish(ip, password) /\ Uncounted /\ NoRoute
  \/ Logout /\ Uncounted /\ NoRoute
  \/ \E ip \in ReqIPs, sessionCookie \in LatestCookie(issued) :
       ValidateSession(ip, sessionCookie) /\ Uncounted /\ NoRoute
  \/ \E csrfHeader \in CsrfHeaders(issued) :
       ValidateCSRFBegin(csrfHeader) /\ Uncounted /\ NoRoute
  \/ ValidateCSRFEnd /\ Uncounted /\ NoRoute

SpecCsrf == Init /\ [][NextCsrf]_vars

\* login rate limiting of the one admitted address, with many overlapping
\* logins
InitRate == Init /\ ALLOWED_IPS # <<>>

NextRate ==
  \/ \E d \in RateTickSteps : ticks < MaxRateTicks /\ Tick(d) /\ Uncounted /\ NoRoute
  \/ Cleanup /\ Uncounted /\ NoRoute
  \/ \E ip \in ReqIPs, password \in Passwords :
       /\ LoginBound(password, MaxInflight, MaxFailures, MaxRateSessions)
       /\ LoginCheck(ip, password)
       /\ Uncounted /\ NoRoute
  \/ \E ip \in ReqIPs, password \in Passwords :
       LoginFinish(ip, password) /\ Uncounted /\ NoRoute

SpecRate == InitRate /\ [][NextRate]_vars

\* the logins of SpecRate, beside the table the timer never touched
NextSweep ==
  \/ \E d \in RateTickSteps :
       ticks < MaxRateTicks /\ Tick(d) /\ TrackUnswept /\ NoRoute
  \/ Cleanup /\ TrackUnswept /\ NoRoute
  \/ \E ip \in ReqIPs, password \in Passwords :
       /\ LoginBound(password, MaxInflight, MaxFailures, MaxRateSessions)
       /\ LoginCheck(ip, password)
       /\ TrackUnswept /\ NoRoute
  \/ \E ip \in ReqIPs, password \in Passwords :
       LoginFinish(ip, password) /\ TrackUnswept /\ NoRoute

SpecSweep == InitRate /\ [][NextSweep]_vars

\* the logins of SpecRate, the failures recorded for each address counted
NextRace ==
  \/ \E d \in RateTickSteps :
       ticks < MaxRateTicks /\ Tick(d) /\ CountRecordedFailures /\ NoRoute
  \/ Cleanup /\ CountRecordedFailures /\ NoRoute
  \/ \E ip \in ReqIPs, password \in Passwords :
       /\ LoginBound(password, MaxInflight, MaxFailures, MaxRateSessions)
       /\ LoginCheck(ip, password)
       /\ CountRecordedFailures /\ NoRoute
  \/ \E ip \in ReqIPs, password \in Passwords :
       LoginFinish(ip, password) /\ CountRecordedFailures /\ NoRoute

SpecRace == InitRate /\ [][NextRace]_vars

\* the logins of SpecRate while the clock has advanced at most MaxRateTicks
\* times, and a clock that keeps advancing by a window's length after the
\* last of them: ReleaseTicks more advances, with no failure recorded
ReleaseTicks == LOCKOUT_DURATION_MS \div LOGIN_WINDOW_MS

LiveTick ==
  /\ ticks < MaxRateTicks + ReleaseTicks
  /\ Tick(LOGIN_WINDOW_MS)
  /\ Uncounted /\ NoRoute

NextLive ==
  \/ LiveTick
  \/ Cleanup /\ Uncounted /\ NoRoute
  \/ \E ip \in ReqIPs, password \in Passwords :
       /\ ticks <= MaxRateTicks
       /\ LoginBound(password, MaxInflight, MaxFailures, MaxRateSessions)
       /\ LoginCheck(ip, password)
       /\ Uncounted /\ NoRoute
  \/ \E ip \in ReqIPs, password \in Passwords :
       /\ ticks <= MaxRateTicks
       /\ LoginFinish(ip, password)
       /\ Uncounted /\ NoRoute

SpecLive == InitRate /\ [][NextLive]_vars /\ WF_vars(LiveTick)

\* one login call at a time, the failed calls of each address counted
NextSeq ==
  \/ \E d \in RateTickSteps :
       ticks < MaxRateTicks /\ Tick(d) /\ CountFailedLogins /\ NoRoute
  \/ Cleanup /\ CountFailedLogins /\ NoRoute
  \/ \E ip \in ReqIPs, password \in Passwords :
       /\ LoginBound(password, 1, MaxFailures, MaxRateSessions)
       /\ failedLogins[ip].count < MaxFailedLogins
       /\ LoginCheck(ip, password)
       /\ CountFailedLogins /\ NoRoute
  \/ \E ip \in ReqIPs, password \in Passwords :
       LoginFinish(ip, password) /\ CountFailedLogins /\ NoRoute

SpecSeq == Init /\ [][NextSeq]_vars

\* the mutating routes, two requests at a time, beside the logins of the
\* operator and the clock
InitGuard == Init /\ PANEL_PASSWORD_HASH # <<>>

NextGuard ==
  \/ \E d \in GuardTickSteps :
       ticks < MaxGuardTicks /\ Tick(d) /\ Uncounted /\ NoRoute
  \/ \E ip \in ReqIPs :
       /\ issued + InflightCount < MaxGuardLogins
       /\ LoginCheck(ip, GoodPassword)
       /\ Uncounted /\ NoRoute
  \/ \E ip \in ReqIPs :
       LoginFinish(ip, GoodPassword) /\ Uncounted /\ NoRoute
  \/ \E i \in Slots, route \in Routes, ip \in ReqIPs,
        sessionCookie \in {Undefined} \cup LatestCookie(issued) :
       RouteStart(i, route, ip, sessionCookie)
  \/ \E i \in Slots : RouteCsrfBegin(i)
  \/ \E i \in Slots, csrfHeader \in CsrfHeaders(issued) :
       RouteCsrfEnd(i, csrfHeader)
  \/ \E i \in Slots, name \in ServiceNames, action \in Actions :
       ServiceHandler(i, name, action)
  \/ \E i \in Slots, ok \in BOOLEAN : ServiceActionDone(i, ok)
  \/ \E i \in Slots : ServiceStatusDone(i)
  \/ \E i \in Slots, name \in ServiceNames, password \in BodyPasswords,
        entries \in BodyEntries :
       EnvHandler(i, name, password, entries)
  \/ \E i \in Slots : EnvPasswordDone(i)
  \/ \E i \in Slots : EnvStatusDone(i)
  \/ \E i \in Slots, ok \in BOOLEAN : EnvBackupDone(i, ok)
  \/ \E i \in Slots, ok \in BOOLEAN : EnvTeeDone(i, ok)
  \/ \E i \in Slots : LogoutHandler(i)

SpecGuard == InitGuard /\ [][NextGuard]_vars

\* requests that carry their cookie and their x-csrf-token header from their
\* arrival, beside logins and logouts: a header can hold only a token that was
\* issued before the request arrived
NextPair ==
  \/ \E ip \in ReqIPs :
       /\ LoginsSoFar < MaxLogins
       /\ LoginCheck(ip, GoodPassword)
       /\ Uncounted /\ NoRoute
  \/ \E ip \in ReqIPs :
       LoginFinish(ip, GoodPassword) /\ Uncounted /\ NoRoute
  \/ \E i \in Slots, route \in {"service", "logout"}, ip \in ReqIPs,
        sessionCookie \in {signValue(SessionId(k)) : k \in 1..issued},
        csrfHeader \in CsrfHeaders(issued) :
       RequestStart(i, route, ip, sessionCookie, csrfHeader)
  \/ \E i \in Slots : RouteCsrfBegin(i)
  \/ \E i \in Slots :
       requests[i].pc = "headers" /\ RouteCsrfEnd(i, requests[i].header)
  \/ \E i \in Slots : ServiceHandler(i, WEB, "restart")
  \/ \E i \in Slots, ok \in BOOLEAN : ServiceActionDone(i, ok)
  \/ \E i \in Slots : ServiceStatusDone(i)
  \/ \E i \in Slots : LogoutHandler(i)

SpecPair == InitGuard /\ [][NextPair]_vars

\* everything that reads or writes the rate-limit table or the session slot:
\* logins with either password, the clock and the timer, logout, and the env
\* write with its guards (validateSession, validateCSRF) and its step-up
NextFrame ==
  \/ \E d \in RateTickSteps :
       ticks < MaxRateTicks /\ Tick(d) /\ Uncounted /\ NoRoute
  \/ Cleanup /\ Uncounted /\ NoRoute
  \/ \E ip \in ReqIPs, password \in Passwords :
       /\ LoginsSoFar < MaxLogins
       /\ LoginCheck(ip, password)
       /\ Uncounted /\ NoRoute
  \/ \E ip \in ReqIPs, password \in Passwords :
       LoginFinish(ip, password) /\ Uncounted /\ NoRoute
  \/ Logout /\ Uncounted /\ NoRoute
  \/ \E sessionCookie \in {Undefined} \cup LatestCookie(issued) :
       RouteStart("a", "env", IP_5, sessionCookie)
  \/ RouteCsrfBegin("a")
  \/ \E csrfHeader \in CsrfHeaders(issued) : RouteCsrfEnd("a", csrfHeader)
  \/ \E password \in BodyPasswords :
       EnvHandler("a", WEB, password,
                  Array(<<[key |-> Str("PORT"), value |-> Str("8080")]>>))
  \/ EnvPasswordDone("a")
  \/ EnvStatusDone("a")
  \/ \E ok \in BOOLEAN : EnvBackupDone("a", ok)
  \/ \E ok \in BOOLEAN : EnvTeeDone("a", ok)

SpecFrame == InitGuard /\ [][NextFrame]_vars

\* env writes of two requests at a time, each command of writeEnvFile a step
\* of its own that the host lets succeed or fail, and the clock, which gives
\* the backups their names
NextEnvWrite ==
  \/ ticks < MaxGuardTicks /\ Tick(1) /\ Uncounted /\ NoRoute
  \/ \E ip \in ReqIPs :
       /\ issued + InflightCount < MaxGuardLogins
       /\ LoginCheck(ip, GoodPassword)
       /\ Uncounted /\ NoRoute
  \/ \E ip \in ReqIPs :
       LoginFinish(ip, GoodPassword) /\ Uncounted /\ NoRoute
  \/ \E i \in Slots, ip \in ReqIPs,
        sessionCookie \in {Undefined} \cup LatestCookie(issued) :
       RouteStart(i, "env", ip, sessionCookie)
  \/ \E i \in Slots : RouteCsrfBegin(i)
  \/ \E i \in Slots, csrfHeader \in CsrfHeaders(issued) :
       RouteCsrfEnd(i, csrfHeader)
  \/ \E i \in Slots, name \in ServiceNames, password \in BodyPasswords,
        entries \in BodyEntries :
       EnvHandler(i, name, password, entries)
  \/ \E i \in Slots : EnvPasswordDone(i)
  \/ \E i \in Slots : EnvStatusDone(i)
  \/ \E i \in Slots, ok \in BOOLEAN : EnvBackupDone(i, ok)
  \/ \E i \in Slots, ok \in BOOLEAN : EnvTeeDone(i, ok)

SpecEnvWrite == InitGuard /\ [][NextEnvWrite]_vars

\* login and session validation of requests whose address is resolved from
\* their headers
NextAddr ==
  \/ \E forwardedFor \in ForwardedFor, realIp \in RealIp,
        password \in Passwords :
       /\ LoginsSoFar < MaxLogins
       /\ LoginCheck(getClientIP(forwardedFor, realIp), password)
       /\ Uncounted /\ NoRoute
  \/ \E ip \in AllIPs, password \in Passwords :
       LoginFinish(ip, password) /\ Uncounted /\ NoRoute
  \/ \E forwardedFor \in ForwardedFor, realIp \in RealIp,
        sessionCookie \in Cookies(issued) :
       /\ ValidateSession(getClientIP(forwardedFor, realIp), sessionCookie)
       /\ Uncounted /\ NoRoute

SpecAddr == Init /\ [][NextAddr]_vars

\* signValue and verifySignedValue applied to values and strings, at any
\* time; the observer keeps the first signValue call of the behaviour: its
\* value, its output and its time
SignValue(value) ==
  /\ ret' = [op |-> "signValue", value |-> value, out |-> signValue(value)]
  /\ firstSigned' = IF firstSigned # NoCall THEN firstSigned
                    ELSE [value |-> value, out |-> signValue(value),
                          at |-> now]
  /\ UNCHANGED <<now, ticks, config, activeSession, rateLimitMap, comparing,
                 issued, csrfWait, failedLogins, neverSwept, requests>>

VerifySignedValue(signed) ==
  /\ ret' = [op |-> "verifySignedValue", signed |-> signed,
             out |-> verifySignedValue(signed)]
  /\ UNCHANGED <<now, ticks, config, activeSession, rateLimitMap, comparing,
                 issued, csrfWait, failedLogins, neverSwept, firstSigned,
                 requests>>

NextSign ==
  \/ ticks < MaxSignTicks /\ Tick(1) /\ Uncounted /\ NoRoute
  \/ \E value \in SignedValues : SignValue(value)
  \/ \E signed \in SignedStrings : VerifySignedValue(signed)

\* signing reads PANEL_SECRET alone: one configuration of the rest
InitSign == Init /\ PANEL_PASSWORD_HASH = <<>> /\ ALLOWED_IPS = <<>>

SpecSign == InitSign /\ [][NextSign]_vars

\* checkIPAllowlist applied to an address under one configured allowlist
CheckAllowlist(ip) ==
  /\ ret' = [op |-> "checkIPAllowlist", ip |-> ip,
             out |-> checkIPAllowlist(ALLOWED_IPS, ip)]
  /\ UNCHANGED <<now, ticks, config, activeSession, rateLimitMap, comparing,
                 issued, csrfWait, failedLogins, neverSwept, firstSigned,
                 requests>>

InitCidr ==
  /\ now = StartTime
  /\ ticks = 0
  /\ PANEL_PASSWORD_HASH \in HashConfigs
  /\ ALLOWED_IPS \in CidrConfigs
  /\ activeSession = NullSession
  /\ rateLimitMap = <<>>
  /\ comparing = [c \in LoginCalls |-> 0]
  /\ issued = 0
  /\ csrfWait = NoCall
  /\ failedLogins = [ip \in ReqIPs |-> [count |-> 0, since |-> 0]]
  /\ neverSwept = <<>>
  /\ firstSigned = NoCall
  /\ requests = [i \in Slots |-> Idle]
  /\ ret = [op |-> "start"]

NextCidr == \E ip \in CheckedIPs : CheckAllowlist(ip)

SpecCidr == InitCidr /\ [][NextCidr]_vars

\* ------------------------------------------------------------------------
\* Session validation (checked under Spec; validateCSRF under SpecCsrf)
\* ------------------------------------------------------------------------
\* C1: validateSession reports valid exactly when, at the call, a session is
\* live, the cookie verifies, the verified identifier is the live session's
\* id, the session is at most 24h old and the caller's address passes the
\* allowlist; in every other case it reports not valid and requireAuth
\* raises 401.
C1_ValidOnlyIfAll ==
  [][ret'.op = "validateSession" =>
       LET verified == verifySignedValue(ret'.cookie)
           all == /\ activeSession # NullSession
                  /\ verified # Null
                  /\ verified = activeSession.id
                  /\ now - activeSession.createdAt <= SESSION_MAX_AGE_MS
                  /\ checkIPAllowlist(ALLOWED_IPS, ret'.ip)
       IN /\ ret'.out.valid = all
          /\ ret'.out.valid => ret'.requireAuth = [ip |-> ret'.ip]
          /\ ~ret'.out.valid =>
               /\ "throws" \in DOMAIN ret'.requireAuth
               /\ ret'.requireAuth.status = 401]_vars

\* a validation succeeded later than the login, under a configured allowlist
C1_Witness ==
  /\ ret.op = "validateSession"
  /\ ret.out.valid
  /\ ALLOWED_IPS # <<>>
  /\ now > activeSession.createdAt

\* C2: in every state at most one issued identifier can pass validateSession,
\* and a validation that succeeds presents the cookie of the latest login:
\* after a second login the cookie of the first one fails.
C2_SingleSession ==
  [][/\ Cardinality({k \in 1..issued : \E ip \in ReqIPs :
                       validateSession(activeSession, ALLOWED_IPS, ip,
                                       signValue(SessionId(k)), now).valid}) <= 1
     /\ (ret'.op = "validateSession" /\ ret'.out.valid) =>
          /\ issued >= 1
          /\ ret'.cookie = signValue(SessionId(issued))]_vars

\* the first login's cookie was presented while the second session is live
C2_Witness ==
  /\ issued = 2
  /\ activeSession # NullSession
  /\ ret.op = "validateSession"
  /\ ret.cookie = signValue(SessionId(1))
  /\ checkIPAllowlist(ALLOWED_IPS, ret.ip)
  /\ ~ret.out.valid

\* C3: the live session, presented with its own signed cookie from an allowed
\* address, validates 1ms before createdAt + 24h and fails 1ms after it.
C3_LifetimeBoundary ==
  [][(/\ ret'.op = "validateSession"
      /\ activeSession # NullSession
      /\ ret'.cookie = signValue(activeSession.id)
      /\ checkIPAllowlist(ALLOWED_IPS, ret'.ip)) =>
       /\ now = activeSession.createdAt + SESSION_MAX_AGE_MS - 1 => ret'.out.valid
       /\ now = activeSession.createdAt + SESSION_MAX_AGE_MS + 1 => ~ret'.out.valid]_vars

\* a validation succeeded at createdAt + 24h - 1ms
C3_Witness ==
  /\ ret.op = "validateSession"
  /\ ret.out.valid
  /\ now = activeSession.createdAt + SESSION_MAX_AGE_MS - 1

\* C4: every validateCSRF call returns, true exactly when a session is live
\* and the header is present, non-empty and equal to its csrfToken, and false
\* in every other case: with no session, with the header absent or empty, and
\* for every other header value.
C4_CsrfExactToken ==
  [][ret'.op = "validateCSRF" =>
       LET h == ret'.header
           returned(v) == "out" \in DOMAIN ret' /\ ret'.out = v
           match == /\ activeSession # NullSession
                    /\ h # Null
                    /\ h # <<>>
                    /\ h = activeSession.csrfToken
       IN /\ returned(TRUE) <=> match
          /\ ~match => returned(FALSE)]_vars

\* C5: a cookie with an altered signature, one with no separator and the
\* signed cookie of a replaced session fail exactly as a missing cookie does:
\* the same result, and the session and the rest of the state unchanged.
C5_UniformFailure ==
  [][LET c == ret'.cookie
          \* a cookie that fails for its signature, its form or its age
          rejected ==
            \/ \E k \in 1..issued : c = Tamper(signValue(SessionId(k)))
            \/ c # Undefined /\ LastIndexOf(c, ".") = -1
            \/ \E k \in 1..issued :
                 /\ c = signValue(SessionId(k))
                 /\ activeSession = NullSession
                    \/ activeSession.id # SessionId(k)
          missing == validateSession(activeSession, ALLOWED_IPS, ret'.ip,
                                     Undefined, now)
      IN (ret'.op = "validateSession" /\ rejected) =>
           /\ ret'.out = [valid |-> FALSE, ip |-> ret'.ip]
           /\ ret'.out = [valid |-> missing.valid, ip |-> missing.ip]
           /\ ret'.requireAuth = requireAuth(missing)
           /\ activeSession' = missing.session
           /\ UNCHANGED <<activeSession, rateLimitMap, comparing, issued,
                          csrfWait>>]_vars

\* the live session's cookie, its signature altered, was refused
C5_Witness ==
  /\ ret.op = "validateSession"
  /\ activeSession # NullSession
  /\ ret.cookie = Tamper(signValue(activeSession.id))
  /\ checkIPAllowlist(ALLOWED_IPS, ret.ip)
  /\ now - activeSession.createdAt <= SESSION_MAX_AGE_MS
  /\ ~ret.out.valid

\* ------------------------------------------------------------------------
\* Rate limiting (checked under SpecRate and SpecSeq)
\* ------------------------------------------------------------------------
TooMany == "Too many attempts. Try again later."
\* the last step returned "Invalid password" to a login from ip
FailedLogin(r, ip) ==
  /\ r.op = "login"
  /\ r.ip = ip
  /\ ~r.out.success
  /\ r.out.error = "Invalid password"

\* C6: an address with maxAttempts (5) failures counted in its window is
\* refused by checkRateLimit while the window lasts or a lockout is active,
\* and is let in again once the window is over with no lockout active; while
\* it is refused no login from it starts the password comparison.
C6_BlockedAtMaxAttempts ==
  [][\A ip \in ReqIPs :
       MapHas(rateLimitMap, ip) /\ rateLimitMap[ip].attempts >= LOGIN_MAX_ATTEMPTS =>
         LET entry == rateLimitMap[ip]
             inWindow == now - entry.firstAttempt <= LOGIN_WINDOW_MS
             locked == entry.lockedUntil > now
             check == checkRateLimit(rateLimitMap, ip, now)
         IN /\ check.allowed = ~(inWindow \/ locked)
            /\ (inWindow \/ locked) =>
                 /\ ~(ret'.op = "login:await" /\ ret'.ip = ip)
                 /\ (ret'.op = "login" /\ ret'.ip = ip /\ comparing' = comparing) =>
                      ret'.out.error = TooMany]_vars

\* the fifth failure is counted, the window is in its last millisecond and a
\* further login was refused
C6_Witness ==
  \E ip \in ReqIPs :
    /\ MapHas(rateLimitMap, ip)
    /\ rateLimitMap[ip].attempts = LOGIN_MAX_ATTEMPTS
    /\ rateLimitMap[ip].lockedUntil = 0
    /\ now = rateLimitMap[ip].firstAttempt + LOGIN_WINDOW_MS
    /\ ret.op = "login"
    /\ ret.ip = ip
    /\ ret.out.error = TooMany

\* C7: with no entry checkRateLimit reports the full budget; each failed
\* login of an address that was still allowed lowers remaining by exactly
\* one, allowed = (remaining > 0), and the failing call returns that value;
\* so k <= 5 failures in one window give remaining = 5 - k, allowed = (k < 5).
C7_RemainingCountsDown ==
  [][\A ip \in ReqIPs :
       LET before == checkRateLimit(rateLimitMap, ip, now)
           after == checkRateLimit(rateLimitMap', ip, now')
       IN /\ ~MapHas(rateLimitMap, ip) =>
               before.allowed /\ before.remaining = LOGIN_MAX_ATTEMPTS
          /\ (/\ MapHas(rateLimitMap, ip)
              /\ rateLimitMap[ip].attempts <= LOGIN_MAX_ATTEMPTS
              /\ now - rateLimitMap[ip].firstAttempt <= LOGIN_WINDOW_MS) =>
               /\ before.remaining = LOGIN_MAX_ATTEMPTS - rateLimitMap[ip].attempts
               /\ before.allowed = (rateLimitMap[ip].attempts < LOGIN_MAX_ATTEMPTS)
          /\ FailedLogin(ret', ip) =>
               /\ ret'.out.remaining = after.remaining
               /\ before.allowed =>
                    /\ after.remaining = before.remaining - 1
                    /\ after.allowed = (after.remaining > 0)]_vars

\* the fifth failed login returned remaining = 0 and the address is refused
C7_Witness ==
  \E ip \in ReqIPs :
    /\ FailedLogin(ret, ip)
    /\ ret.out.remaining = 0
    /\ rateLimitMap[ip].attempts = LOGIN_MAX_ATTEMPTS
    /\ ~checkRateLimit(rateLimitMap, ip, now).allowed

\* C8: a successful login removes the entry of its address and no other, so
\* that checkRateLimit then reports the full budget, and a failed login of an
\* address with no entry opens a window with attempts = 1, firstAttempt = now;
\* clearRateLimit removes a locked entry just the same.
C8_SuccessClearsEntry ==
  [][/\ \A ip \in ReqIPs :
          LET locked == MapSet(rateLimitMap, ip,
                               [attempts |-> LOCKOUT_ATTEMPTS, firstAttempt |-> now,
                                lockedUntil |-> now + LOCKOUT_DURATION_MS])
              cleared == clearRateLimit(locked, ip)
          IN /\ ~checkRateLimit(locked, ip, now).allowed
             /\ ~MapHas(cleared, ip)
             /\ checkRateLimit(cleared, ip, now).allowed
             /\ checkRateLimit(cleared, ip, now).remaining = LOGIN_MAX_ATTEMPTS
     /\ (ret'.op = "login" /\ ret'.out.success) =>
          /\ DOMAIN rateLimitMap' = (DOMAIN rateLimitMap) \ {ret'.ip}
          /\ \A other \in DOMAIN rateLimitMap' :
               rateLimitMap'[other] = rateLimitMap[other]
          /\ checkRateLimit(rateLimitMap', ret'.ip, now') =
               [allowed |-> TRUE, remaining |-> LOGIN_MAX_ATTEMPTS,
                retryAfterMs |-> 0, map |-> rateLimitMap']
     /\ \A ip \in ReqIPs :
          (FailedLogin(ret', ip) /\ ~MapHas(rateLimitMap, ip)) =>
            rateLimitMap'[ip] =
              [attempts |-> 1, firstAttempt |-> now, lockedUntil |-> 0]]_vars

\* a login succeeded while another address has failures counted
C8_Witness ==
  /\ ret.op = "login"
  /\ ret.out.success
  /\ ~MapHas(rateLimitMap, ret.ip)
  /\ \E other \in DOMAIN rateLimitMap : rateLimitMap[other].attempts >= 1

\* C9: when the tenth failed login of an address within 15 minutes returns,
\* the address is locked out for 30 minutes.
C9_LockoutAfterTen ==
  \A ip \in ReqIPs :
    (/\ ret.op = "login"
     /\ ret.ip = ip
     /\ ~ret.out.success
     /\ failedLogins[ip].count >= LOCKOUT_ATTEMPTS) =>
      /\ MapHas(rateLimitMap, ip)
      /\ rateLimitMap[ip].lockedUntil = now + LOCKOUT_DURATION_MS

\* C10: while an address is locked checkRateLimit refuses it with
\* remaining = 0 and retryAfterMs = lockedUntil - now, and no step other than
\* a successful login of the address removes or shortens the lockout.
C10_LockoutKept ==
  [][\A ip \in ReqIPs :
       (MapHas(rateLimitMap, ip) /\ rateLimitMap[ip].lockedUntil > now) =>
         /\ checkRateLimit(rateLimitMap, ip, now) =
              [allowed |-> FALSE, remaining |-> 0,
               retryAfterMs |-> rateLimitMap[ip].lockedUntil - now,
               map |-> rateLimitMap]
         /\ ~(ret'.op = "login" /\ ret'.ip = ip /\ ret'.out.success) =>
              /\ MapHas(rateLimitMap', ip)
              /\ rateLimitMap'[ip].lockedUntil >= rateLimitMap[ip].lockedUntil]_vars

\* ------------------------------------------------------------------------
\* The checks of login, in their order (checked under SpecRate)
\* ------------------------------------------------------------------------
\* C11: a login from an address that a non-empty allowlist rejects returns
\* "Access denied" whatever the password, never starts a password
\* comparison, and leaves the rate-limit table, the session and the count of
\* issued sessions as they were; the address has no rate-limit entry.
C11_DeniedNoBookkeeping ==
  [][\A ip \in ReqIPs :
       (Len(ALLOWED_IPS) > 0 /\ ~checkIPAllowlist(ALLOWED_IPS, ip)) =>
         /\ ~(ret'.op = "login:await" /\ ret'.ip = ip)
         /\ \A password \in Passwords : comparing'[<<ip, password>>] = 0
         /\ ~MapHas(rateLimitMap', ip)
         /\ (ret'.op = "login" /\ ret'.ip = ip) =>
              /\ ret'.out = [success |-> FALSE, error |-> "Access denied"]
              /\ UNCHANGED <<rateLimitMap, activeSession, comparing, issued>>]_vars

\* 10.0.0.6 was denied under the allowlist ["10.0.0.5"], while a session is
\* live and 10.0.0.5 has failures counted
C11_Witness ==
  /\ ALLOWED_IPS = <<IP_5>>
  /\ ret.op = "login"
  /\ ret.ip = IP_6
  /\ ret.out.error = "Access denied"
  /\ activeSession # NullSession
  /\ MapHas(rateLimitMap, IP_5)

NotConfigured == "Panel not configured. Run setup.sh first."

\* C12, as claimed: with no password hash configured every login call returns
\* the configuration error.
C12_AlwaysConfigError ==
  [][(PANEL_PASSWORD_HASH = <<>> /\ ret'.op \in {"login", "login:await"}) =>
       /\ ret'.op = "login"
       /\ ret'.out = [success |-> FALSE, error |-> NotConfigured]]_vars

\* C12, amended: with no password hash configured every login call from an
\* address the allowlist admits returns the configuration error, whatever the
\* password, and a call from a rejected address returns "Access denied"; no
\* call starts a comparison, issues a session or touches the rate-limit table,
\* which stays empty.
C12_ConfigErrorIfAdmitted ==
  [][(PANEL_PASSWORD_HASH = <<>> /\ ret'.op \in {"login", "login:await"}) =>
       /\ ret'.op = "login"
       /\ ret'.out = [success |-> FALSE,
                      error |-> IF checkIPAllowlist(ALLOWED_IPS, ret'.ip)
                                THEN NotConfigured ELSE "Access denied"]
       /\ NotConfigured \notin {"Invalid password", TooMany, "Access denied"}
       /\ UNCHANGED <<rateLimitMap, activeSession, comparing, issued>>
       /\ rateLimitMap = <<>>
       /\ activeSession = NullSession
       /\ issued = 0
       /\ \A c \in LoginCalls : comparing[c] = 0]_vars

\* with no hash configured the right password got the configuration error,
\* later than the start
C12_Witness ==
  /\ PANEL_PASSWORD_HASH = <<>>
  /\ ret.op = "login"
  /\ ret.password = GoodPassword
  /\ ret.out.error = NotConfigured
  /\ now > StartTime

\* C13: a login call is settled by the first check that fails, in the order
\* allowlist, rate limit, configuration, and reaches the password comparison
\* only when all three pass; a call that checkRateLimit refuses returns
\* "Too many attempts" with remaining = 0 and the retryAfterMs of the check,
\* whatever the password, and changes neither the rate-limit table nor the
\* session nor the comparisons in flight.
C13_CheckOrder ==
  [][(\/ ret'.op = "login:await"
      \/ ret'.op = "login" /\ comparing' = comparing) =>
       LET ip == ret'.ip
           rateCheck == checkRateLimit(rateLimitMap, ip, now)
           returned(out) == ret'.op = "login" /\ ret'.out = out
       IN IF ~checkIPAllowlist(ALLOWED_IPS, ip)
          THEN returned([success |-> FALSE, error |-> "Access denied"])
          ELSE IF ~rateCheck.allowed
          THEN /\ returned([success |-> FALSE, error |-> TooMany, remaining |-> 0,
                            retryAfterMs |-> rateCheck.retryAfterMs])
               /\ UNCHANGED <<rateLimitMap, activeSession, issued, comparing>>
          ELSE IF PANEL_PASSWORD_HASH = <<>>
          THEN returned([success |-> FALSE, error |-> NotConfigured])
          ELSE /\ ret'.op = "login:await"
               /\ comparing'[<<ip, ret'.password>>] =
                    comparing[<<ip, ret'.password>>] + 1]_vars

\* the right password was refused during a lockout, with the time left
C13_Witness ==
  /\ ret.op = "login"
  /\ ret.password = GoodPassword
  /\ ~ret.out.success
  /\ ret.out.error = TooMany
  /\ ret.out.retryAfterMs > 0
  /\ ret.out.retryAfterMs = rateLimitMap[ret.ip].lockedUntil - now

\* ------------------------------------------------------------------------
\* Guards of the mutating routes
\* ------------------------------------------------------------------------
\* the session slot is left alone, or loses a session past its lifetime
SessionNotInvalidated ==
  \/ UNCHANGED activeSession
  \/ /\ activeSession # NullSession
     /\ now - activeSession.createdAt > SESSION_MAX_AGE_MS
     /\ activeSession' = NullSession

\* the request that took this step, and no other, had gone through both
\* guards, requireAuth first
ActedAfterGuards ==
  \E i \in Slots :
    /\ requests[i].pc \notin {"idle", "requireCSRF", "headers"}
    /\ requests[i].route = ret'.route
    /\ Len(requests[i].passed) >= 2
    /\ SubSeq(requests[i].passed, 1, 2) = <<"requireAuth", "requireCSRF">>
    /\ requests'[i] # requests[i]
    /\ \A j \in Slots \ {i} : requests'[j] = requests[j]

\* C14: a mutating route (service action, env write, logout) calls requireAuth
\* first and requireCSRF second and acts only after both succeeded; a request
\* that fails requireAuth is answered 401 and one that fails requireCSRF is
\* answered 403, and neither runs a command or invalidates the session.
C14_GuardsBeforeChange ==
  [][/\ (ret'.op = "route" /\ ret'.step = "requireAuth") =>
          /\ ~validateSession(activeSession, ALLOWED_IPS, ret'.ip,
                              ret'.cookie, now).valid
          /\ ret'.response = [status |-> 401, error |-> "Unauthorized"]
          /\ UNCHANGED requests
          /\ SessionNotInvalidated
     /\ (ret'.op = "route" /\ ret'.step = "requireCSRF") =>
          /\ ret'.response = [status |-> 403, error |-> "Invalid CSRF token"]
          /\ UNCHANGED activeSession
     /\ (ret'.op \in {"route", "route:await"}
         /\ ret'.step \notin {"requireAuth", "requireCSRF"}) => ActedAfterGuards
     /\ ret'.op \in {"route", "route:await"} =>
          \/ SessionNotInvalidated
          \/ ret'.op = "route" /\ ret'.step = "handler" /\ ret'.route = "logout"
     /\ (ret'.op = "route:await"
         /\ ret'.step \in {"requireAuth", "requireCSRF"}) =>
          \E i \in Slots :
            IF ret'.step = "requireAuth"
            THEN /\ requests[i] = Idle
                 /\ requests'[i].passed = <<"requireAuth">>
            ELSE /\ requests[i].passed = <<"requireAuth">>
                 /\ requests'[i].passed \in
                      {requests[i].passed, <<"requireAuth", "requireCSRF">>}]_vars

\* C15: saving the env file is a step-up operation: writeEnvFile runs only in
\* a request in which requireAuth, requireCSRF and verifyPassword(password)
\* succeeded, in that order; with a missing or wrong password, or with no
\* password hash configured, the request ends with an error and nothing is
\* written.
C15_StepUpBeforeWrite ==
  [][LET wrote ==
           /\ "commands" \in DOMAIN ret'
           /\ \E k \in 1..Len(ret'.commands) :
                ret'.commands[k].argv0 \in {"cp", "tee"}
         called(fn) == fn \in {ret'.calls[k] : k \in 1..Len(ret'.calls)}
         passwordValid ==
           /\ typeof(ret'.password) = "string"
           /\ verifyPassword(PANEL_PASSWORD_HASH, ret'.password.string)
     IN /\ wrote =>
             /\ ret'.route = "env"
             /\ called("writeEnvFile")
        /\ (/\ ret'.op \in {"route", "route:await"}
            /\ ret'.route = "env"
            /\ ret'.step \notin {"requireAuth", "requireCSRF"}) =>
             /\ ActedAfterGuards
             /\ called("writeEnvFile") =>
                  /\ passwordValid
                  /\ ret'.calls = <<"requireAuth", "requireCSRF", "verifyPassword",
                                    "getServiceStatus", "audit", "writeEnvFile">>
                  /\ ret'.op = "route" => ret'.response.status \in {200, 500}
             /\ (ret'.op = "route" /\ ret'.response.status = 200) =>
                  /\ ret'.step = "tee"
                  /\ called("writeEnvFile")
             /\ ~passwordValid =>
                  /\ ret'.commands = <<>>
                  /\ ~called("getServiceStatus")
                  /\ ~called("writeEnvFile")
                  /\ ret'.step \in {"handler", "verifyPassword"}
                  /\ ret'.step = "verifyPassword" => ret'.op = "route"
                  /\ ret'.op = "route" =>
                       /\ ret'.response \in
                            {[status |-> 400, error |-> "Invalid service name"],
                             IF Falsy(ret'.password)
                                \/ typeof(ret'.password) # "string"
                             THEN [status |-> 400,
                                   error |-> "Password confirmation required"]
                             ELSE [status |-> 403, error |-> "Invalid password"]}
                       /\ validateServiceName(ret'.name) =>
                            ret'.response.error # "Invalid service name"
        /\ \A password \in BodyPasswords :
             typeof(password) = "string" =>
               ~verifyPassword(<<>>, password.string)]_vars

\* a request with the right password has written the env file of web: its tee
\* ended with success and it was answered 200
C15_Witness ==
  /\ ret.op = "route"
  /\ ret.route = "env"
  /\ ret.step = "tee"
  /\ ret.name = WEB
  /\ ret.password = Str(GoodPassword)
  /\ ret.response.status = 200
  /\ ret.calls = <<"requireAuth", "requireCSRF", "verifyPassword",
                   "getServiceStatus", "audit", "writeEnvFile">>

\* ------------------------------------------------------------------------
\* Logout
\* ------------------------------------------------------------------------
\* C16: logout is idempotent: with or without a live session it returns
\* without an error and leaves the session slot empty and everything else as
\* it was, so a second logout changes nothing; while the slot is empty every
\* validateSession returns invalid and no validateCSRF returns true, and only
\* a successful login fills the slot again.
C16_LogoutIdempotent ==
  [][/\ ret'.op = "logout" =>
          /\ ret' = [op |-> "logout"]
          /\ activeSession' = NullSession
          /\ UNCHANGED <<now, ticks, config, rateLimitMap, comparing, issued,
                         csrfWait>>
          /\ ret.op = "logout" => UNCHANGED vars
     /\ activeSession = NullSession =>
          /\ ret'.op = "validateSession" =>
               /\ ~ret'.out.valid
               /\ ret'.requireAuth.status = 401
          /\ ret'.op = "validateCSRF" =>
               \/ "throws" \in DOMAIN ret'
               \/ ~ret'.out
          /\ activeSession' # NullSession =>
               /\ ret'.op = "login"
               /\ ret'.out.success]_vars

\* logout emptied the slot while a validateCSRF call that had found a live
\* session was waiting
C16_Witness ==
  /\ ret.op = "logout"
  /\ activeSession = NullSession
  /\ csrfWait # NoCall
  /\ issued > 0

\* ------------------------------------------------------------------------
\* Ambiguous requests
\* ------------------------------------------------------------------------
\* C17: the checks fail closed: a request without a session cookie, with a
\* cookie whose signature is malformed, or whose address resolves to
\* "unknown" is never authorized: validateSession never returns valid for it
\* and login issues no session for it.
C17_FailClosed ==
  [][/\ (/\ ret'.op = "validateSession"
         /\ \/ ret'.cookie = Undefined
            \/ verifySignedValue(ret'.cookie) = Null
            \/ ret'.ip = IP_UNKNOWN) => ~ret'.out.valid
     /\ (ret'.op = "login" /\ ret'.ip = IP_UNKNOWN) =>
          /\ ~ret'.out.success
          /\ UNCHANGED <<activeSession, issued>>]_vars

\* ------------------------------------------------------------------------
\* The address validateSession returns
\* ------------------------------------------------------------------------
\* C18: a successful validateSession returns the address recorded in the live
\* session at login (session.ip), also for a request that presents the valid
\* cookie from another address than the one that logged in.
C18_ReturnsSessionIp ==
  [][(ret'.op = "validateSession" /\ ret'.out.valid) =>
       /\ activeSession # NullSession
       /\ ret'.out.ip = activeSession.ip
       /\ activeSession'.ip = activeSession.ip]_vars

\* ------------------------------------------------------------------------
\* Address ranges of the allowlist
\* ------------------------------------------------------------------------
\* C19: checkIPAllowlist admits every address when the allowlist is empty;
\* otherwise it admits an address if and only if the address equals a
\* configured literal address or lies within a configured CIDR range: with
\* 10.0.1.0/24 configured, 10.0.1.7 is admitted and 10.0.10.7 and 10.0.100.7
\* are not.
C19_CidrRange ==
  LET \* an address as a number, and what it is to lie within base/bits
      digits == <<"0", "1", "2", "3", "4", "5", "6", "7", "8", "9">>
      decimal(s) ==
        s # <<>> /\ \A i \in 1..Len(s) : \E k \in 1..Len(digits) : digits[k] = s[i]
      RECURSIVE number(_)
      number(s) ==
        IF s = <<>> THEN 0
        ELSE number(SubSeq(s, 1, Len(s) - 1)) * 10
               + (CHOOSE k \in 1..Len(digits) : digits[k] = s[Len(s)]) - 1
      octet(s, k) ==
        SubSeq(s, IF k = 1 THEN 1 ELSE NthIndexOf(s, ".", k - 1) + 2,
               NthIndexOf(s, ".", k))
      address(s) ==
        /\ Cardinality({i \in 1..Len(s) : s[i] = "."}) = 3
        /\ \A k \in 1..4 : decimal(octet(s, k)) /\ number(octet(s, k)) <= 255
      value(s) ==
        ((number(octet(s, 1)) * 256 + number(octet(s, 2))) * 256
           + number(octet(s, 3))) * 256 + number(octet(s, 4))
      within(ip, range) ==
        LET slash == NthIndexOf(range, "/", 1)
            base == SubSeq(range, 1, slash)
            bits == SubSeq(range, slash + 2, Len(range))
        IN /\ address(ip) /\ address(base) /\ decimal(bits)
           /\ number(bits) \in 1..32
           /\ value(ip) \div 2^(32 - number(bits))
                = value(base) \div 2^(32 - number(bits))
  IN ret.op = "checkIPAllowlist" =>
       ret.out = (\/ ALLOWED_IPS = <<>>
                  \/ \E i \in 1..Len(ALLOWED_IPS) :
                       IF Includes(ALLOWED_IPS[i], "/")
                       THEN within(ret.ip, ALLOWED_IPS[i])
                       ELSE ret.ip = ALLOWED_IPS[i])

\* ------------------------------------------------------------------------
\* The cleanup timer
\* ------------------------------------------------------------------------
\* C20: the sweep is housekeeping: it deletes only entries whose window is
\* over and whose lockout is over and leaves every other entry as it is, and
\* whatever the logins and clock advances, checkRateLimit returns the same
\* and every login returns the same with the sweep running at any moments as
\* on the table that was never swept.
C20_SweepNotNeeded ==
  [][/\ ret'.op = "cleanup" =>
          \A ip \in DOMAIN rateLimitMap :
            IF MapHas(rateLimitMap', ip)
            THEN rateLimitMap'[ip] = rateLimitMap[ip]
            ELSE /\ now - rateLimitMap[ip].firstAttempt > LOGIN_WINDOW_MS
                 /\ now > rateLimitMap[ip].lockedUntil
     /\ DOMAIN rateLimitMap' \subseteq DOMAIN neverSwept'
     /\ \A ip \in ReqIPs :
          LET swept == checkRateLimit(rateLimitMap', ip, now')
              unswept == checkRateLimit(neverSwept', ip, now')
          IN /\ swept.allowed = unswept.allowed
             /\ swept.remaining = unswept.remaining
             /\ swept.retryAfterMs = unswept.retryAfterMs
     /\ ret'.op = "login" => ret'.out = UnsweptLogin.out
     /\ ret'.op = "login:await" => UnsweptLogin.out.awaits]_vars

\* the sweep has deleted the entry of an address that was refused for its
\* five failures; the table never swept still holds it
C20_Witness ==
  /\ ret.op = "cleanup"
  /\ ~MapHas(rateLimitMap, IP_5)
  /\ MapHas(neverSwept, IP_5)
  /\ neverSwept[IP_5].attempts >= LOGIN_MAX_ATTEMPTS

\* ------------------------------------------------------------------------
\* Retrying after a refusal (checked under SpecRate)
\* ------------------------------------------------------------------------
\* C21: when login is refused as rate limited with retryAfterMs = r, a login
\* from the same address r milliseconds later, with no failure counted in
\* between, is not refused as rate limited, whether the refusal came from the
\* soft attempt limit or from a lockout.
C21_RetryableAfter ==
  [][(ret'.op = "login" /\ ~ret'.out.success /\ ret'.out.error = TooMany) =>
       checkRateLimit(rateLimitMap', ret'.ip,
                      now' + ret'.out.retryAfterMs).allowed]_vars

\* C22: login is limited to 5 attempts per 15 minutes per address: however
\* the login calls of an address overlap, its entry never counts more than 5
\* wrong-password comparisons in one window.
C22_AtMostFive ==
  \A ip \in DOMAIN rateLimitMap :
    rateLimitMap[ip].attempts <= LOGIN_MAX_ATTEMPTS

\* ------------------------------------------------------------------------
\* Overlapping failed logins (checked under SpecRace)
\* ------------------------------------------------------------------------
\* C23: however the failed logins of an address overlap, no failure is lost
\* and the lockout comes no later than the tenth failure: while the window of
\* the failures recorded lasts, the entry counts exactly these failures from
\* the first of them, and with 10 or more of them it has lockedUntil > now.
C23_NoLostIncrement ==
  \A ip \in ReqIPs :
    LET seen == failedLogins[ip]
    IN (seen.count >= 1 /\ now - seen.since <= LOGIN_WINDOW_MS) =>
         /\ MapHas(rateLimitMap, ip)
         /\ rateLimitMap[ip].attempts = seen.count
         /\ rateLimitMap[ip].firstAttempt = seen.since
         /\ seen.count >= LOCKOUT_ATTEMPTS => rateLimitMap[ip].lockedUntil > now

\* the tenth failure of overlapping logins was recorded, later than the first,
\* and the address is locked while an eleventh call still compares
C23_Witness ==
  \E ip \in ReqIPs :
    /\ FailedLogin(ret, ip)
    /\ failedLogins[ip].count = LOCKOUT_ATTEMPTS
    /\ now > failedLogins[ip].since
    /\ rateLimitMap[ip].attempts = LOCKOUT_ATTEMPTS
    /\ rateLimitMap[ip].lockedUntil = now + LOCKOUT_DURATION_MS
    /\ comparing[<<ip, "letmein">>] > 0

C25_FixedLifetime ==
  [][/\ (ret'.op = "validateSession" /\ ret'.out.valid) =>
          /\ activeSession # NullSession
          /\ activeSession' = [activeSession EXCEPT !.lastActivity = now]
          /\ activeSession'.id = activeSession.id
          /\ activeSession'.csrfToken = activeSession.csrfToken
          /\ activeSession'.createdAt = activeSession.createdAt
          /\ activeSession'.ip = activeSession.ip
          /\ now <= activeSession.createdAt + SESSION_MAX_AGE_MS
     /\ (/\ ret'.op = "validateSession"
         /\ activeSession # NullSession
         /\ activeSession.lastActivity > activeSession.createdAt
         /\ now > activeSession.createdAt + SESSION_MAX_AGE_MS) =>
          ~ret'.out.valid
     /\ (activeSession # NullSession /\ activeSession' # NullSession) =>
          \/ activeSession'.createdAt = activeSession.createdAt
          \/ ret'.op = "login" /\ ret'.out.success]_vars

\* a validation succeeded exactly 24h after the login and moved lastActivity
\* there
C25_Witness ==
  /\ ret.op = "validateSession"
  /\ ret.out.valid
  /\ activeSession.lastActivity = activeSession.createdAt + SESSION_MAX_AGE_MS

\* ------------------------------------------------------------------------
\* The end of a session's lifetime (checked under SpecCsrf)
\* ------------------------------------------------------------------------
\* the slot is empty or holds a session with all its fields set: the
\* identifier and token of one of the n logins, createdAt <= lastActivity <= now, and
\* the address of the login
FullyPopulated(session, n, t) ==
  \/ session = NullSession
  \/ /\ DOMAIN session = {"id", "csrfToken", "createdAt", "lastActivity", "ip"}
     /\ \E k \in 1..n :
          session.id = SessionId(k) /\ session.csrfToken = CsrfToken(k)
     /\ session.createdAt >= StartTime
     /\ session.createdAt <= session.lastActivity
     /\ session.lastActivity <= t
     /\ session.ip \in AllIPs

\* C26: a validateSession that fails because the live session is older than
\* 24h clears the session; with the slot empty no validateCSRF succeeds, no
\* validateSession succeeds and only a successful login fills the slot again;
\* in every reachable state the slot is empty or holds a fully populated
\* session.
C26_ExpiryClears ==
  [][/\ (/\ ret'.op = "validateSession"
         /\ activeSession # NullSession
         /\ checkIPAllowlist(ALLOWED_IPS, ret'.ip)
         /\ ret'.cookie = signValue(activeSession.id)
         /\ now - activeSession.createdAt > SESSION_MAX_AGE_MS) =>
          /\ ~ret'.out.valid
          /\ ret'.requireAuth.status = 401
          /\ activeSession' = NullSession
     /\ (activeSession = NullSession /\ ret'.op = "validateCSRF") =>
          ~("out" \in DOMAIN ret' /\ ret'.out)
     /\ (activeSession = NullSession /\ ret'.op = "validateSession") =>
          ~ret'.out.valid
     /\ (activeSession = NullSession /\ activeSession' # NullSession) =>
          /\ ret'.op = "login"
          /\ ret'.out.success
     /\ FullyPopulated(activeSession, issued, now)
     /\ FullyPopulated(activeSession', issued', now')]_vars

\* the cookie of the latest login was refused later than 24h after the start
\* and the slot is empty, while a validateCSRF call that had found a session
\* still waits
C26_Witness ==
  /\ ret.op = "validateSession"
  /\ ~ret.out.valid
  /\ issued > 0
  /\ ret.cookie = signValue(SessionId(issued))
  /\ checkIPAllowlist(ALLOWED_IPS, ret.ip)
  /\ now > StartTime + SESSION_MAX_AGE_MS
  /\ activeSession = NullSession
  /\ csrfWait # NoCall

\* ------------------------------------------------------------------------
\* The backup of an env file (checked under SpecEnvWrite)
\* ------------------------------------------------------------------------
\* C27: writeEnvFile makes the backup before it writes: tee on the env path is
\* started only in the step in which the cp of that path to
\* <path>.bak.<timestamp>, started by the same request, has ended with
\* success; when the backup fails the request starts no tee and answers 500.
C27_BackupBeforeWrite ==
  [][LET before(i) == IF "commands" \in DOMAIN requests[i]
                       THEN requests[i].commands ELSE <<>>
         \* the commands that the request of slot i started in this step
         new(i) == IF requests'[i] # requests[i] /\ "commands" \in DOMAIN ret'
                   THEN SubSeq(ret'.commands, Len(before(i)) + 1,
                               Len(ret'.commands))
                   ELSE <<>>
         started(argv0) ==
           \E i \in Slots :
             \E k \in 1..Len(new(i)) : new(i)[k].argv0 = argv0
     IN /\ started("cp") =>
             \E i \in Slots :
               /\ requests[i].pc = "getServiceStatus"
               /\ requests' = [requests EXCEPT
                                 ![i] = [pc |-> "cp", passed |-> ret'.calls,
                                         timestamp |-> now,
                                         commands |-> ret'.commands]
                                        @@ requests[i]]
               /\ new(i) = <<Command("cp", "", WebEnvFile, now, <<>>)>>
        /\ \A i \in Slots :
             (requests'[i].pc = "cp" /\ requests[i].pc # "cp") => started("cp")
        /\ started("tee") =>
             \E i \in Slots :
               /\ requests[i].pc = "cp"
               /\ ret'.step = "backup"
               /\ ret'.backup
               /\ new(i) =
                    <<Command("tee", "", WebEnvFile, 0,
                              JoinLines(requests[i].entries.items) \o <<"\n">>)>>
               /\ \E k \in 1..Len(before(i)) :
                    before(i)[k] = Command("cp", "", WebEnvFile,
                                           requests[i].timestamp, <<>>)
               /\ requests' = [requests EXCEPT
                                 ![i] = [pc |-> "tee",
                                         commands |-> ret'.commands]
                                        @@ requests[i]]
        /\ (ret'.op \in {"route", "route:await"}
            /\ ret'.step = "backup" /\ ~ret'.backup) =>
             /\ ~started("tee")
             /\ ret'.op = "route"
             /\ ret'.response =
                  [status |-> 500, error |-> "Failed to write env file"]
             /\ \E i \in Slots :
                  /\ requests[i].pc = "cp"
                  /\ requests' = [requests EXCEPT ![i] = Idle]
        /\ \A i \in Slots :
             (requests'[i].pc = "tee" /\ requests[i].pc # "tee") =>
               requests[i].pc = "cp" /\ ret'.backup]_vars

\* the backup of one request failed and the request was answered 500, while
\* the other request, its backup made, writes
C27_Witness ==
  /\ ret.op = "route"
  /\ ret.step = "backup"
  /\ ~ret.backup
  /\ ret.response.status = 500
  /\ \E i \in Slots : requests[i].pc = "tee"

\* ------------------------------------------------------------------------
\* Cookie and CSRF token of one session (checked under SpecPair)
\* ------------------------------------------------------------------------
\* C28: whatever logins and logouts come between requireAuth and requireCSRF,
\* a request passes requireCSRF, and its operation is performed, only when
\* its cookie and its x-csrf-token header are those of one and the same
\* session, which is the live one when requireCSRF passes.
C28_SameSession ==
  [][/\ \A i \in Slots :
          (requests[i].pc = "headers" /\ requests'[i].pc = "handler") =>
            /\ activeSession # NullSession
            /\ requests[i].cookie = signValue(activeSession.id)
            /\ requests[i].header = activeSession.csrfToken
     /\ (ret'.op \in {"route", "route:await"}
         /\ ret'.step \notin {"requireAuth", "requireCSRF"}) =>
          \E i \in Slots :
            /\ requests[i].pc \notin {"idle", "requireCSRF", "headers"}
            /\ requests'[i] # requests[i]
            /\ \A j \in Slots \ {i} : requests'[j] = requests[j]
            /\ \E k \in 1..issued :
                 /\ requests[i].cookie = signValue(SessionId(k))
                 /\ requests[i].header = CsrfToken(k)]_vars

\* a service action of the second session was performed while a request that
\* passed requireAuth with the cookie of the first session, and carries the
\* token of the first, is still between the guards
C28_Witness ==
  /\ ret.op = "route"
  /\ ret.step = "getServiceStatus"
  /\ ret.route = "service"
  /\ ret.response.status = 200
  /\ issued = 2
  /\ \E j \in Slots :
       /\ requests[j].pc \in {"requireCSRF", "headers"}
       /\ requests[j].cookie = signValue(SessionId(1))
       /\ requests[j].header = CsrfToken(1)

\* ------------------------------------------------------------------------
\* What changes the rate-limit table (checked under SpecFrame)
\* ------------------------------------------------------------------------
\* the table differs only in the entry of ip, which is now entry
OnlyEntrySet(ip, entry) ==
  /\ DOMAIN rateLimitMap' = DOMAIN rateLimitMap \cup {ip}
  /\ rateLimitMap'[ip] = entry
  /\ \A other \in DOMAIN rateLimitMap \ {ip} :
       rateLimitMap'[other] = rateLimitMap[other]

\* the table differs only in the entry of ip, which is gone
OnlyEntryDeleted(ip) ==
  /\ MapHas(rateLimitMap, ip)
  /\ DOMAIN rateLimitMap' = DOMAIN rateLimitMap \ {ip}
  /\ \A other \in DOMAIN rateLimitMap' :
       rateLimitMap'[other] = rateLimitMap[other]

\* C29: the rate-limit table changes only by a wrong-password login (the
\* caller's entry created or incremented), a successful login (the caller's
\* entry deleted), a check on an unlocked entry whose window is over (that
\* entry deleted) and the sweep; validateSession, validateCSRF, the guards of
\* the routes, logout and the env handler with its verifyPassword leave it as
\* it is, and a wrong password of the step-up is answered 403 with the table
\* and the session unchanged.
C29_TableFrame ==
  [][/\ rateLimitMap' # rateLimitMap =>
          \/ /\ ret'.op = "login"
             /\ comparing' # comparing
             /\ ~ret'.out.success
             /\ ret'.password # GoodPassword
             /\ OnlyEntrySet(ret'.ip,
                  IF MapHas(rateLimitMap, ret'.ip)
                     /\ now - rateLimitMap[ret'.ip].firstAttempt <= LOGIN_WINDOW_MS
                  THEN [rateLimitMap[ret'.ip] EXCEPT
                          !.attempts = @ + 1,
                          !.lockedUntil = IF rateLimitMap[ret'.ip].attempts + 1
                                               >= LOCKOUT_ATTEMPTS
                                          THEN now + LOCKOUT_DURATION_MS ELSE @]
                  ELSE [attempts |-> 1, firstAttempt |-> now, lockedUntil |-> 0])
          \/ /\ ret'.op = "login"
             /\ ret'.out.success
             /\ OnlyEntryDeleted(ret'.ip)
          \/ /\ ret'.op \in {"login", "login:await"}
             /\ \A c \in LoginCalls : comparing'[c] >= comparing[c]
             /\ OnlyEntryDeleted(ret'.ip)
             /\ rateLimitMap[ret'.ip].lockedUntil <= now
             /\ now - rateLimitMap[ret'.ip].firstAttempt > LOGIN_WINDOW_MS
          \/ ret'.op = "cleanup"
     /\ ret'.op \in {"validateSession", "validateCSRF", "validateCSRF:await",
                     "logout", "route", "route:await"} =>
          UNCHANGED rateLimitMap
     /\ (/\ ret'.op \in {"route", "route:await"}
         /\ ret'.route = "env"
         /\ ret'.step \notin {"requireAuth", "requireCSRF"}) =>
          /\ UNCHANGED <<rateLimitMap, activeSession>>
          /\ (validateServiceName(ret'.name)
              /\ typeof(ret'.password) = "string"
              /\ ret'.password.string # ""
              /\ ~verifyPassword(PANEL_PASSWORD_HASH, ret'.password.string)) =>
               /\ ret'.commands = <<>>
               /\ ret'.step \in {"handler", "verifyPassword"}
               /\ ret'.step = "handler" => ret'.op = "route:await"
               /\ ret'.step = "verifyPassword" =>
                    /\ ret'.op = "route"
                    /\ ret'.response =
                         [status |-> 403, error |-> "Invalid password"]]_vars

\* the step-up of an env write was refused for a wrong password while the
\* session is live and an address has a failed login counted
C29_Witness ==
  /\ ret.op = "route"
  /\ ret.step = "verifyPassword"
  /\ ret.route = "env"
  /\ ret.password = Str("letmein")
  /\ ret.response = [status |-> 403, error |-> "Invalid password"]
  /\ activeSession # NullSession
  /\ rateLimitMap # <<>>

\* ------------------------------------------------------------------------
\* No address is refused forever (checked under SpecLive)
\* ------------------------------------------------------------------------
\* checkRateLimit refuses the address
Refused(ip) == ~checkRateLimit(rateLimitMap, ip, now).allowed

\* checkRateLimit lets the address in with all its attempts
FullBudget(ip) ==
  /\ checkRateLimit(rateLimitMap, ip, now).allowed
  /\ checkRateLimit(rateLimitMap, ip, now).remaining = LOGIN_MAX_ATTEMPTS

\* C30: no address is refused forever: from every state in which
\* checkRateLimit refuses an address, for its attempts or for a lockout, a
\* clock that keeps advancing with no further failure recorded leads to a
\* state in which checkRateLimit lets it in with the full budget, whether the
\* sweep runs or never does.
C30_NotBlockedForever ==
  \A ip \in ReqIPs : Refused(ip) ~> FullBudget(ip)

\* the entry of an address that was locked out is still in the table, not
\* swept away, and checkRateLimit lets the address in with the full budget
C30_Witness ==
  \E ip \in ReqIPs :
    /\ MapHas(rateLimitMap, ip)
    /\ rateLimitMap[ip].attempts >= LOCKOUT_ATTEMPTS
    /\ rateLimitMap[ip].lockedUntil > 0
    /\ rateLimitMap[ip].lockedUntil <= now
    /\ FullBudget(ip)

====
